---- MODULE Spec2Model ----
(***************************************************************************)
(* Model of the build/test orchestration core:                             *)
(*   - GTestLogParser (build/scripts/common/gtest_utils.py), the streaming *)
(*     log classifier;                                                     *)
(*   - ensure_sequence_of_steps / run_steps                                *)
(*     (build/scripts/slave/annotated_run.py), the step sequencer and the  *)
(*     orchestration loop.                                                 *)
(*                                                                         *)
(* A log line is a sequence of segments.  A segment stands for a piece of  *)
(* text that the parser's regular expressions tell apart; the segments of  *)
(* a line are separated by one blank.  Segment kinds and their text:       *)
(*   text      s   "s"  (matches no regular expression)                    *)
(*   run       t   "[ RUN      ] t"                                        *)
(*   ok        t   "[       OK ] t"                                        *)
(*   fail      t   "[  FAILED  ] t"                                        *)
(*   passed        "[  PASSED  ] 3 tests."                                 *)
(*   shard     t   "[1/2] 0.5s t (500 ms)"                                 *)
(*   timeout   t   "Test timeout (100 ms) exceeded for t"                  *)
(*   disabled  n   "  YOU HAVE n DISABLED TESTS"                           *)
(*   flaky     n   "  YOU HAVE n FLAKY TESTS"                              *)
(*   disabled_nan  "  YOU HAVE many DISABLED TESTS" (count is no number)   *)
(*   flaky_nan     "  YOU HAVE many FLAKY TESTS"                           *)
(*   master    m   "[Running for master: "m"]"                             *)
(*   supp      h   "Suppression (error hash=#h#):"                         *)
(*   close         "}"                                                     *)
(*   retry         "RETRYING FAILED TESTS:"                                *)
(*   failing       "Failing tests:"                                        *)
(*   name      t   "t"  (a line that starts with a test name)              *)
(*   lit       s   a line the parser itself writes into a description      *)
(***************************************************************************)
EXTENDS Integers, Sequences, FiniteSets, TLC

Seg(k, a, n) == [k |-> k, a |-> a, n |-> n]

Text(s) == <<Seg("text", s, 0)>>
Run(t) == <<Seg("run", t, 0)>>
Ok(t) == <<Seg("ok", t, 0)>>
Failed(t) == <<Seg("fail", t, 0)>>
Passed == <<Seg("passed", "", 0)>>
Shard(t) == <<Seg("shard", t, 0)>>
Timeout(t) == <<Seg("timeout", t, 0)>>
Disabled(n) == <<Seg("disabled", "", n)>>
Flaky(n) == <<Seg("flaky", "", n)>>
DisabledNaN == <<Seg("disabled_nan", "", 0)>>
FlakyNaN == <<Seg("flaky_nan", "", 0)>>
Master(m) == <<Seg("master", m, 0)>>
SuppStart(h) == <<Seg("supp", h, 0)>>
SuppEnd == <<Seg("close", "", 0)>>
Retry == <<Seg("retry", "", 0)>>
FailingTests == <<Seg("failing", "", 0)>>
Name(t) == <<Seg("name", t, 0)>>
Lit(s) == <<Seg("lit", s, 0)>>

(* The lines the parser writes itself. *)
DidNotComplete == Lit("Did not complete.")
EmptyLine == Lit("")
RetryOutput == Lit("RETRY OUTPUT:")
KilledTimedOut == Lit("Killed (timed out).")
UnknownError == Lit("Unknown error, see stdio log.")

(***************************************************************************)
(* Regular expressions.  re.match anchors at position 0, re.search finds   *)
(* the leftmost match anywhere.  SearchPos is the index of the first       *)
(* segment of the kind, 0 when there is none.                              *)
(***************************************************************************)
MatchKind(kind, line) == Len(line) > 0 /\ line[1].k = kind

SearchPos(kind, line) ==
  IF \E i \in 1..Len(line) : line[i].k = kind
  THEN CHOOSE i \in 1..Len(line) :
         /\ line[i].k = kind
         /\ \A j \in 1..(i - 1) : line[j].k # kind
  ELSE 0

_master_name_re(line) == MatchKind("master", line)
_test_name(line) == MatchKind("name", line)
_test_start(line) == MatchKind("run", line)
_test_ok(line) == MatchKind("ok", line)
_test_fail(line) == MatchKind("fail", line)
_test_passed(line) == MatchKind("passed", line)
_run_test_cases_line(line) == MatchKind("shard", line)
_test_timeout(line) == SearchPos("timeout", line) # 0
_disabled(line) == MatchKind("disabled", line)
_flaky(line) == MatchKind("flaky", line)
_suppression_start(line) == MatchKind("supp", line)
(* '^}\s*$' has to match the whole line. *)
_suppression_end(line) == Len(line) = 1 /\ line[1].k = "close"
_retry_message(line) == MatchKind("retry", line)
(* line.startswith('Failing tests:') *)
StartsWithFailingTests(line) == MatchKind("failing", line)

(* x.find('FAILS_') # -1 and x.find('FLAKY_') # -1 on the test names used. *)
ContainsFAILS(t) == t \in {"Foo.FAILS_Baz", "Foo.FAILS_FLAKY_Mix"}
ContainsFLAKY(t) == t \in {"Foo.FLAKY_Qux", "Foo.FAILS_FLAKY_Mix"}

(* _disabled_tests / _flaky_tests hold an int or the text 'some'. *)
IntVal(n) == [isint |-> TRUE, v |-> n]
Some == [isint |-> FALSE, v |-> 0]

VARIABLES
  completed, _current_test, _failure_description,
  _current_suppression_hash, _current_suppression, _parsing_failures,
  _line_number, _internal_error_lines, _test_status, _suppressions,
  _disabled_tests, _flaky_tests, master_name, retrying_failed,
  fd_alias,       \* tests whose stored description is the list object
                  \* _failure_description refers to
  parser_fault,   \* a KeyError left ProcessLine
  log_lines,      \* the lines the test binary may print in this run
  log_length,     \* the number of lines of the log
  last_line, prev_line,  \* the last two lines given to ProcessLine
  retry_snapshot, \* _test_status as it was when retry mode was entered
  banner_seen,    \* an all-tests-passed banner has been processed
  block           \* the lines from the last suppression start line on,
                  \* up to the first "}" line after it

parserVars == <<completed, _current_test, _failure_description,
  _current_suppression_hash, _current_suppression, _parsing_failures,
  _line_number, _internal_error_lines, _test_status, _suppressions,
  _disabled_tests, _flaky_tests, master_name, retrying_failed,
  fd_alias, parser_fault, log_lines, log_length, last_line, prev_line, retry_snapshot,
  banner_seen,
  block>>

(* The parser object as one record. *)
Parser == [
  completed |-> completed,
  _current_test |-> _current_test,
  _failure_description |-> _failure_description,
  _current_suppression_hash |-> _current_suppression_hash,
  _current_suppression |-> _current_suppression,
  _parsing_failures |-> _parsing_failures,
  _line_number |-> _line_number,
  _internal_error_lines |-> _internal_error_lines,
  _test_status |-> _test_status,
  _suppressions |-> _suppressions,
  _disabled_tests |-> _disabled_tests,
  _flaky_tests |-> _flaky_tests,
  master_name |-> master_name,
  retrying_failed |-> retrying_failed,
  fd_alias |-> fd_alias,
  parser_fault |-> parser_fault ]

GTestLogParserInit == [
  completed |-> FALSE,
  _current_test |-> "",
  _failure_description |-> <<>>,
  _current_suppression_hash |-> "",
  _current_suppression |-> <<>>,
  _parsing_failures |-> FALSE,
  _line_number |-> 0,
  _internal_error_lines |-> <<>>,
  _test_status |-> <<>>,
  _suppressions |-> <<>>,
  _disabled_tests |-> IntVal(0),
  _flaky_tests |-> IntVal(0),
  master_name |-> "",
  retrying_failed |-> FALSE,
  fd_alias |-> {},
  parser_fault |-> FALSE ]

(* dict assignment d[k] = v *)
Put(d, k, v) == [x \in (DOMAIN d) \cup {k} |-> IF x = k THEN v ELSE d[x]]

Entry(status, desc) == [status |-> status, desc |-> desc]

StatusOfTest(s, test) ==
  IF test \in DOMAIN s._test_status THEN s._test_status[test].status
  ELSE "not known"

_TestsByStatus(s, status, include_fails, include_flaky) ==
  {t \in DOMAIN s._test_status :
     /\ StatusOfTest(s, t) = status
     /\ (include_fails \/ ~ContainsFAILS(t))
     /\ (include_flaky \/ ~ContainsFLAKY(t))}

RunningTests_Filtered(s) == _TestsByStatus(s, "started", FALSE, FALSE)

RunningTests(s) == _TestsByStatus(s, "started", TRUE, TRUE)

FailedTests_FiltersTimeout(s, include_fails, include_flaky) ==
  _TestsByStatus(s, "failed", include_fails, include_flaky)
    \cup _TestsByStatus(s, "timeout", include_fails, include_flaky)
    \cup _TestsByStatus(s, "warning", include_fails, include_flaky)
    \cup RunningTests(s)

FailedTests(s, include_fails, include_flaky) ==
  _TestsByStatus(s, "failed", include_fails, include_flaky)
    \cup _TestsByStatus(s, "timeout", TRUE, TRUE)
    \cup _TestsByStatus(s, "warning", include_fails, include_flaky)
    \cup RunningTests(s)

DisabledTests(s) == s._disabled_tests
FlakyTests(s) == s._flaky_tests

FailureDescription(s, test) ==
  <<Lit(test)>> \o (IF test \in DOMAIN s._test_status
                    THEN s._test_status[test].desc ELSE <<>>)

SuppressionHashes(s) == DOMAIN s._suppressions

Suppression(s, h) ==
  IF h \in DOMAIN s._suppressions THEN s._suppressions[h] ELSE <<>>

CompletedWithoutFailure(s) ==
  s.completed /\ FailedTests(s, FALSE, FALSE) = {}

_RecordError(s, line, reason) ==
  [s EXCEPT !._internal_error_lines =
     Append(@, [num |-> s._line_number, line |-> line, reason |-> reason])]

(***************************************************************************)
(* Python lists are objects.  _test_status[t] = (status, fd) stores the    *)
(* list _failure_description refers to, and a later append to it is seen   *)
(* through the stored entry until _failure_description is bound to another *)
(* list.  StoreShared stores the current list, StoreFresh a new one,       *)
(* Rebind binds _failure_description to a new list, Grow appends in place. *)
(***************************************************************************)
StoreShared(s, t, status) ==
  [s EXCEPT !._test_status = Put(@, t, Entry(status, s._failure_description)),
            !.fd_alias = @ \cup {t}]

StoreFresh(s, t, status, desc) ==
  [s EXCEPT !._test_status = Put(@, t, Entry(status, desc)),
            !.fd_alias = @ \ {t}]

Rebind(s, desc) ==
  [s EXCEPT !._failure_description = desc, !.fd_alias = {}]

Grow(s, lines) ==
  [s EXCEPT !._failure_description = @ \o lines,
            !._test_status =
               [t \in DOMAIN @ |->
                  IF t \in s.fd_alias
                  THEN Entry(@[t].status, @[t].desc \o lines)
                  ELSE @[t]]]

Fault(s) == [s EXCEPT !.parser_fault = TRUE]

(***************************************************************************)
(* _ProcessLine, one rule after the other; every rule that returns is a    *)
(* branch of the IF chain.                                                 *)
(***************************************************************************)
MasterNameRule(s, line) ==
  IF s.master_name = "" /\ _master_name_re(line)
  THEN [s EXCEPT !.master_name = line[1].a]
  ELSE s

TimeoutCurrentTest_Skipped(s) ==
  IF s._current_test = "" THEN s
  ELSE IF s._current_test \notin DOMAIN s._test_status THEN Fault(s)
  ELSE s

(* if self._current_test: if self._test_status[self._current_test][0] ... *)
TimeoutCurrentTest(s) ==
  IF s._current_test = "" THEN s
  ELSE IF s._current_test \notin DOMAIN s._test_status THEN Fault(s)
  ELSE IF s._test_status[s._current_test].status = "started"
       THEN StoreShared(s, s._current_test, "timeout")
       ELSE s

RunTestCasesRule_KeepsStarted(s) ==
  [Rebind(s, <<>>) EXCEPT !._current_test = ""]

RunTestCasesRule(s) ==
  LET s1 == TimeoutCurrentTest(s)
  IN IF s1.parser_fault THEN s1
     ELSE [Rebind(s1, <<>>) EXCEPT !._current_test = ""]

TestPassedRule_Unmarked(s) == [s EXCEPT !._current_test = ""]

TestPassedRule(s) ==
  [s EXCEPT !.completed = TRUE, !._current_test = ""]

(* int(results.group(1)) of a match of (\d+) never raises. *)
DisabledRule(s, line) ==
  LET disabled == line[1].n
  IN IF disabled > 0 /\ s._disabled_tests.isint
     THEN [s EXCEPT !._disabled_tests = IntVal(disabled)]
     ELSE [s EXCEPT !._disabled_tests = Some]

FlakyRule(s, line) ==
  LET flaky == line[1].n
  IN IF flaky > 0 /\ s._flaky_tests.isint
     THEN [s EXCEPT !._flaky_tests = IntVal(flaky)]
     ELSE [s EXCEPT !._flaky_tests = Some]

TestStartRule_Unstored(s, line) ==
  LET s1 == TimeoutCurrentTest(s)
  IN IF s1.parser_fault THEN s1
     ELSE [Rebind(s1, <<>>) EXCEPT !._current_test = line[1].a]

TestStartRule(s, line) ==
  LET s1 == TimeoutCurrentTest(s)
      test_name == line[1].a
      s2 == [StoreFresh(s1, test_name, "started", DidNotComplete)
               EXCEPT !._current_test = test_name]
  IN IF s1.parser_fault THEN s1
     ELSE IF s2.retrying_failed
          THEN Grow([s2 EXCEPT
                       !._failure_description = s2._test_status[test_name].desc,
                       !.fd_alias = {test_name}],
                    EmptyLine \o RetryOutput \o EmptyLine)
          ELSE Rebind(s2, <<>>)

TestOkRule_AlwaysWarning(s, line) ==
  LET test_name == line[1].a
      status == StatusOfTest(s, test_name)
      s1 == IF status # "started"
            THEN _RecordError(s, line, <<"success while in status", status>>)
            ELSE s
      s2 == StoreShared(s1, test_name, "warning")
  IN [Rebind(s2, <<>>) EXCEPT !._current_test = ""]

TestOkRule_AlwaysOk(s, line) ==
  LET test_name == line[1].a
      status == StatusOfTest(s, test_name)
      s1 == IF status # "started"
            THEN _RecordError(s, line, <<"success while in status", status>>)
            ELSE s
      s2 == StoreFresh(s1, test_name, "OK", <<>>)
  IN [Rebind(s2, <<>>) EXCEPT !._current_test = ""]

TestOkRule_Silent(s, line) ==
  LET test_name == line[1].a
      s2 == IF s.retrying_failed
            THEN StoreShared(s, test_name, "warning")
            ELSE StoreFresh(s, test_name, "OK", <<>>)
  IN [Rebind(s2, <<>>) EXCEPT !._current_test = ""]

TestOkRule(s, line) ==
  LET test_name == line[1].a
      status == StatusOfTest(s, test_name)
      s1 == IF status # "started"
            THEN _RecordError(s, line, <<"success while in status", status>>)
            ELSE s
      s2 == IF s1.retrying_failed
            THEN StoreShared(s1, test_name, "warning")
            ELSE StoreFresh(s1, test_name, "OK", <<>>)
  IN [Rebind(s2, <<>>) EXCEPT !._current_test = ""]

TestFailRule_Overwrites(s, line) ==
  LET test_name == line[1].a
      status == StatusOfTest(s, test_name)
      s1 == IF status \notin {"started", "failed", "timeout"}
            THEN _RecordError(s, line, <<"failure while in status", status>>)
            ELSE s
      s2 == StoreShared(s1, test_name, "failed")
  IN [Rebind(s2, <<>>) EXCEPT !._current_test = ""]

TestFailRule_Silent(s, line) ==
  LET test_name == line[1].a
      status == StatusOfTest(s, test_name)
      s2 == IF status \notin {"failed", "timeout"}
            THEN StoreShared(s, test_name, "failed")
            ELSE s
  IN [Rebind(s2, <<>>) EXCEPT !._current_test = ""]

TestFailRule(s, line) ==
  LET test_name == line[1].a
      status == StatusOfTest(s, test_name)
      s1 == IF status \notin {"started", "failed", "timeout"}
            THEN _RecordError(s, line, <<"failure while in status", status>>)
            ELSE s
      s2 == IF status \notin {"failed", "timeout"}
            THEN StoreShared(s1, test_name, "failed")
            ELSE s1
  IN [Rebind(s2, <<>>) EXCEPT !._current_test = ""]

TestTimeoutRule_Strict(s, line) ==
  LET test_name == line[SearchPos("timeout", line)].a
      status == StatusOfTest(s, test_name)
      s1 == IF status # "started"
            THEN _RecordError(s, line, <<"timeout while in status", status>>)
            ELSE s
      s2 == StoreFresh(s1, test_name, "timeout",
                       s1._failure_description \o KilledTimedOut)
  IN [Rebind(s2, <<>>) EXCEPT !._current_test = ""]

TestTimeoutRule(s, line) ==
  LET test_name == line[SearchPos("timeout", line)].a
      status == StatusOfTest(s, test_name)
      s1 == IF status \notin {"started", "failed"}
            THEN _RecordError(s, line, <<"timeout while in status", status>>)
            ELSE s
      s2 == StoreFresh(s1, test_name, "timeout",
                       s1._failure_description \o KilledTimedOut)
  IN [Rebind(s2, <<>>) EXCEPT !._current_test = ""]

SuppressionStartRule(s, line) ==
  LET suppression_hash == line[1].a
      s1 == IF suppression_hash \in DOMAIN s._suppressions
            THEN _RecordError(s, line,
                              <<"suppression reported more than once", "">>)
            ELSE s
  IN [s1 EXCEPT !._suppressions = Put(@, suppression_hash, <<>>),
                !._current_suppression_hash = suppression_hash,
                !._current_suppression = <<line>>]

SuppressionEndRule(s, line) ==
  [s EXCEPT !._suppressions =
               Put(@, s._current_suppression_hash,
                   Append(s._current_suppression, line)),
            !._current_suppression_hash = "",
            !._current_suppression = <<>>]

RetryRule_Ignored(s) == s
RetryRule(s) == [s EXCEPT !.retrying_failed = TRUE]

CollectSuppressionRule_Dropped(s, line) == s

CollectSuppressionRule(s, line) ==
  [s EXCEPT !._current_suppression = Append(@, line)]

(* The end of _ProcessLine: no rule has returned. *)
RandomLineRule(s, line) ==
  LET s1 == IF s._current_test # "" THEN Grow(s, <<line>>) ELSE s
  IN IF s1._parsing_failures
     THEN IF _test_name(line)
          THEN LET test_name == line[1].a
               IN IF StatusOfTest(s1, test_name) \in {"not known", "OK"}
                  THEN StoreFresh(s1, test_name, "failed", UnknownError)
                  ELSE s1
          ELSE [s1 EXCEPT !._parsing_failures = FALSE]
     ELSE IF StartsWithFailingTests(line)
          THEN [s1 EXCEPT !._parsing_failures = TRUE]
          ELSE s1

_ProcessLine(s0, line) ==
  LET s == MasterNameRule(s0, line)
  IN IF _run_test_cases_line(line) THEN RunTestCasesRule(s)
     ELSE IF _test_passed(line) THEN TestPassedRule(s)
     ELSE IF _disabled(line) THEN DisabledRule(s, line)
     ELSE IF _flaky(line) THEN FlakyRule(s, line)
     ELSE IF _test_start(line) THEN TestStartRule(s, line)
     ELSE IF _test_ok(line) THEN TestOkRule(s, line)
     ELSE IF _test_fail(line) THEN TestFailRule(s, line)
     ELSE IF _test_timeout(line) THEN TestTimeoutRule(s, line)
     ELSE IF _suppression_start(line) THEN SuppressionStartRule(s, line)
     ELSE IF _suppression_end(line) /\ s._current_suppression_hash # ""
          THEN SuppressionEndRule(s, line)
     ELSE IF _retry_message(line) THEN RetryRule(s)
     ELSE IF s._current_suppression_hash # ""
          THEN CollectSuppressionRule(s, line)
     ELSE RandomLineRule(s, line)

(***************************************************************************)
(* ProcessLine: the first of gtest_regexps found anywhere in the line      *)
(* decides whether and where the line is split.                            *)
(***************************************************************************)
gtest_regexps == <<"run", "ok", "fail", "passed">>

SplitPos(line) ==
  IF \E r \in 1..Len(gtest_regexps) : SearchPos(gtest_regexps[r], line) # 0
  THEN LET r == CHOOSE q \in 1..Len(gtest_regexps) :
                  /\ SearchPos(gtest_regexps[q], line) # 0
                  /\ \A p \in 1..(q - 1) : SearchPos(gtest_regexps[p], line) = 0
       IN SearchPos(gtest_regexps[r], line)
  ELSE 0

ProcessLineOp(s0, line) ==
  LET s == [s0 EXCEPT !._line_number = @ + 1]
      start == SplitPos(line)
  IN IF start <= 1
     THEN _ProcessLine(s, line)
     ELSE LET s1 == _ProcessLine(s, SubSeq(line, 1, start - 1))
          IN IF s1.parser_fault THEN s1
             ELSE _ProcessLine(s1, SubSeq(line, start, Len(line)))

(***************************************************************************)
(* The parser driven line by line.                                         *)
(***************************************************************************)
Tests == {"Foo.Bar", "Foo.FAILS_Baz", "Foo.FLAKY_Qux"}
Hashes == {"A1", "B2"}


NoLine == <<>>

IsSuppStartLine(line) == Len(line) = 1 /\ line[1].k = "supp"

BlockClosed(b) == Len(b) > 1 /\ b[Len(b)] = SuppEnd

(* The line, or the part of it from the place where it is split, begins   *)
(* with the all-tests-passed banner.                                       *)
PassedBanner(line) ==
  /\ Len(line) > 0
  /\ line[IF SplitPos(line) > 1 THEN SplitPos(line) ELSE 1].k = "passed"

ParserInit(lines, length) ==
  /\ completed = GTestLogParserInit.completed
  /\ _current_test = GTestLogParserInit._current_test
  /\ _failure_description = GTestLogParserInit._failure_description
  /\ _current_suppression_hash = GTestLogParserInit._current_suppression_hash
  /\ _current_suppression = GTestLogParserInit._current_suppression
  /\ _parsing_failures = GTestLogParserInit._parsing_failures
  /\ _line_number = GTestLogParserInit._line_number
  /\ _internal_error_lines = GTestLogParserInit._internal_error_lines
  /\ _test_status = GTestLogParserInit._test_status
  /\ _suppressions = GTestLogParserInit._suppressions
  /\ _disabled_tests = GTestLogParserInit._disabled_tests
  /\ _flaky_tests = GTestLogParserInit._flaky_tests
  /\ master_name = GTestLogParserInit.master_name
  /\ retrying_failed = GTestLogParserInit.retrying_failed
  /\ fd_alias = GTestLogParserInit.fd_alias
  /\ parser_fault = GTestLogParserInit.parser_fault
  /\ log_lines = lines
  /\ log_length = length
  /\ last_line = NoLine
  /\ prev_line = NoLine
  /\ retry_snapshot = <<>>
  /\ banner_seen = FALSE
  /\ block = <<>>

ProcessLine(line) ==
  /\ ~parser_fault
  /\ _line_number < log_length
  /\ \E s \in {ProcessLineOp(Parser, line)} :
        /\ completed' = s.completed
        /\ _current_test' = s._current_test
        /\ _failure_description' = s._failure_description
        /\ _current_suppression_hash' = s._current_suppression_hash
        /\ _current_suppression' = s._current_suppression
        /\ _parsing_failures' = s._parsing_failures
        /\ _line_number' = s._line_number
        /\ _internal_error_lines' = s._internal_error_lines
        /\ _test_status' = s._test_status
        /\ _suppressions' = s._suppressions
        /\ _disabled_tests' = s._disabled_tests
        /\ _flaky_tests' = s._flaky_tests
        /\ master_name' = s.master_name
        /\ retrying_failed' = s.retrying_failed
        /\ fd_alias' = s.fd_alias
        /\ parser_fault' = s.parser_fault
        /\ retry_snapshot' = IF ~retrying_failed /\ s.retrying_failed
                             THEN _test_status ELSE retry_snapshot
  /\ prev_line' = last_line
  /\ last_line' = line
  /\ banner_seen' = (banner_seen \/ PassedBanner(line))
  /\ block' = IF IsSuppStartLine(line) THEN <<line>>
              ELSE IF block # <<>> /\ ~BlockClosed(block)
                   THEN Append(block, line)
                   ELSE block
  /\ UNCHANGED <<log_lines, log_length>>


(***************************************************************************)
(* Step sources (annotated_run.py).  A step dictionary, a sequence and a   *)
(* generator are nodes of one shape; a generator node lists the items it   *)
(* yields.  Every step dictionary the recipe hands over is an object of    *)
(* its own.                                                                *)
(***************************************************************************)
Node(t, name, has_seed, seed, items) ==
  [t |-> t, name |-> name, has_seed_steps |-> has_seed, seed_steps |-> seed,
   items |-> items, keep_going |-> FALSE, continue_on_failure |-> FALSE,
   followup_fn |-> "", has_placeholder |-> FALSE]

Step(name) == Node("step", name, FALSE, <<>>, <<>>)
SeededStep(name, seed) == Node("step", name, TRUE, seed, <<>>)
(* A step carrying the 'keep_going' key of the module docstring. *)
KeepGoingStep(name) == [Step(name) EXCEPT !.keep_going = TRUE]
(* A step with a 'followup_fn' key: "set_warning" stands for a callback    *)
(* that sets presentation.status = 'WARNING', "read" for one that only     *)
(* reads the result.                                                       *)
FollowupStep(name, fn) == [Step(name) EXCEPT !.followup_fn = fn]
(* A step whose 'cmd' holds a recipe_api.Placeholder. *)
PlaceholderStep(name, fn) ==
  [Step(name) EXCEPT !.followup_fn = fn, !.has_placeholder = TRUE]
(* A step that declares continue-on-failure. *)
ContinuingStep(name) == [Step(name) EXCEPT !.continue_on_failure = TRUE]
Sequence(items) == Node("seq", "", FALSE, <<>>, items)
Generator(items) == Node("gen", "", FALSE, <<>>, items)
(* An object that is no dict, no collections.Sequence and no generator,    *)
(* such as None or a number.                                               *)
Other == Node("other", "", FALSE, <<>>, <<>>)

RECURSIVE flattened_NestedLast(_)
flattened_NestedLast(sequence) ==
  IF sequence = <<>> THEN <<>>
  ELSE LET item == Head(sequence)
       IN IF item.t = "seq"
          THEN flattened_NestedLast(Tail(sequence))
                 \o flattened_NestedLast(item.items)
          ELSE <<item>> \o flattened_NestedLast(Tail(sequence))

RECURSIVE flattened(_)
flattened(sequence) ==
  IF sequence = <<>> THEN <<>>
  ELSE LET item == Head(sequence)
       IN (IF item.t = "seq" THEN flattened(item.items) ELSE <<item>>)
            \o flattened(Tail(sequence))

(* The loop stops at the first step when that step has the key; otherwise  *)
(* the list created at the first step collects the name of every step.     *)
fixup_seed_steps_Overwrites(sequence) ==
  IF sequence = <<>> THEN sequence
  ELSE [sequence EXCEPT
          ![1] = [@ EXCEPT !.has_seed_steps = TRUE,
                           !.seed_steps =
                              [i \in 1..Len(sequence) |-> sequence[i].name]]]

fixup_seed_steps(sequence) ==
  IF sequence = <<>> THEN sequence
  ELSE IF sequence[1].has_seed_steps THEN sequence
  ELSE [sequence EXCEPT
          ![1] = [@ EXCEPT !.has_seed_steps = TRUE,
                           !.seed_steps =
                              [i \in 1..Len(sequence) |-> sequence[i].name]]]

(* fixup_seed_steps on a list with an element that is no dict: the key     *)
(* test "'seed_steps' in step" on the first element and step['name'] on    *)
(* the later ones raise TypeError, unless the loop breaks at a first step  *)
(* that has the key.                                                       *)
fixup_seed_steps_raises(sequence) ==
  /\ sequence # <<>>
  /\ \/ sequence[1].t = "other"
     \/ /\ ~sequence[1].has_seed_steps
        /\ \E i \in 1..Len(sequence) : sequence[i].t = "other"

RECURSIVE ensure_sequence_of_steps(_)
RECURSIVE EnsureEach(_)
EnsureEach(items) ==
  IF items = <<>> THEN <<>>
  ELSE ensure_sequence_of_steps(Head(items)) \o EnsureEach(Tail(items))

ensure_sequence_of_steps(step_or_steps) ==
  IF step_or_steps.t = "step" THEN <<step_or_steps>>
  ELSE IF step_or_steps.t = "seq"
       THEN fixup_seed_steps(flattened(step_or_steps.items))
  ELSE EnsureEach(step_or_steps.items)

(***************************************************************************)
(* The step sources of bounded size: sequences hold steps and sequences,   *)
(* generators yield steps, sequences and generators.  The size of a source *)
(* is the number of its nodes.                                             *)
(***************************************************************************)
StepNames == {"a", "b"}
MaxNodes == 4

(* Step dictionaries without and with a 'seed_steps' key. *)
LeafSteps ==
  {Step(name) : name \in StepNames} \cup {SeededStep("c", <<"c", "d">>)}

RECURSIVE SeqItems(_)
RECURSIVE SeqForests(_)
SeqItems(n) ==
  (IF n = 1 THEN LeafSteps ELSE {})
    \cup {Sequence(items) : items \in SeqForests(n - 1)}

SeqForests(n) ==
  IF n = 0 THEN {<<>>}
  ELSE UNION {{<<item>> \o rest : item \in SeqItems(k),
                                  rest \in SeqForests(n - k)} : k \in 1..n}

RECURSIVE SourcesOfSize(_)
RECURSIVE Forests(_)
SourcesOfSize(n) ==
  SeqItems(n) \cup {Generator(items) : items \in Forests(n - 1)}

Forests(n) ==
  IF n = 0 THEN {<<>>}
  ELSE UNION {{<<item>> \o rest : item \in SourcesOfSize(k),
                                  rest \in Forests(n - k)} : k \in 1..n}

Sources == UNION {SourcesOfSize(n) : n \in 1..MaxNodes}

(***************************************************************************)
(* The leaves of a source in depth-first, left-to-right order, by their    *)
(* paths: a path is the sequence of item indexes from the root to a leaf.  *)
(***************************************************************************)
RECURSIVE LeafPaths(_)
LeafPaths(node) ==
  IF node.t = "step" THEN {<<>>}
  ELSE UNION {{<<i>> \o p : p \in LeafPaths(node.items[i])} :
                i \in 1..Len(node.items)}

RECURSIVE NodeAt(_, _)
NodeAt(node, path) ==
  IF path = <<>> THEN node
  ELSE NodeAt(node.items[Head(path)], Tail(path))

(* No leaf path is a prefix of another one. *)
RECURSIVE Before(_, _)
Before(p, q) ==
  IF p = <<>> \/ q = <<>> THEN FALSE
  ELSE IF Head(p) # Head(q) THEN Head(p) < Head(q)
  ELSE Before(Tail(p), Tail(q))

Rank(node, p) == 1 + Cardinality({q \in LeafPaths(node) : Before(q, p)})

VARIABLES
  seq_source,   \* the argument of ensure_sequence_of_steps
  seq_out,      \* the steps it has yielded
  seq_pc        \* "ready" before the call, "done" after it

seqVars == <<seq_source, seq_out, seq_pc>>

SeqIdle == seq_source = Generator(<<>>) /\ seq_out = <<>> /\ seq_pc = "idle"

EnsureSequenceOfSteps ==
  /\ seq_pc = "ready"
  /\ seq_out' = ensure_sequence_of_steps(seq_source)
  /\ seq_pc' = "done"
  /\ UNCHANGED seq_source

(***************************************************************************)
(* StepPresentation (annotated_run.py).  The two log mappings are          *)
(* dictionaries from a log name to its list of lines.  A caller that reads *)
(* logs or perf_logs holds what the property returned: the stored mapping  *)
(* itself, or a deep copy of it.                                           *)
(***************************************************************************)
STATUSES == {"SUCCESS", "FAILURE", "WARNING", "EXCEPTION"}

VARIABLES
  pres_pc,              \* "idle" or "live"
  _finalized,
  _status,              \* "None" until a status is set
  _step_text,           \* "None" until a text is set
  _step_summary_text,
  _logs,
  _perf_logs,
  held,                 \* the mapping the caller got from its last read
  last_call,            \* the member used by the last call
  pres_error,           \* the exception the last call raised, "" for none
  pres_calls            \* number of calls made

presVars == <<pres_pc, _finalized, _status, _step_text, _step_summary_text,
              _logs, _perf_logs, held, last_call, pres_error, pres_calls>>

Presentation ==
  [_finalized |-> _finalized, _status |-> _status, _step_text |-> _step_text,
   _step_summary_text |-> _step_summary_text, _logs |-> _logs,
   _perf_logs |-> _perf_logs]

NoDict == [x \in {} |-> <<>>]

(* StepPresentation.__init__ *)
StepPresentationInit ==
  [_finalized |-> FALSE, _status |-> "None", _step_text |-> "None",
   _step_summary_text |-> "None", _logs |-> NoDict, _perf_logs |-> NoDict]

(* The outcome of a call: the object afterwards and the exception raised. *)
Returned(p) == [p |-> p, error |-> ""]
Raised(p, error) == [p |-> p, error |-> error]

status_setter_Unguarded(p, val) ==
  IF val \notin STATUSES THEN Raised(p, "AssertionError")
  ELSE Returned([p EXCEPT !._status = val])

status_setter(p, val) ==
  IF p._finalized THEN Raised(p, "AssertionError")
  ELSE IF val \notin STATUSES THEN Raised(p, "AssertionError")
  ELSE Returned([p EXCEPT !._status = val])

step_text_setter(p, val) ==
  IF p._finalized THEN Raised(p, "AssertionError")
  ELSE Returned([p EXCEPT !._step_text = val])

step_summary_text_setter(p, val) ==
  IF p._finalized THEN Raised(p, "AssertionError")
  ELSE Returned([p EXCEPT !._step_summary_text = val])

(* What a read hands out: live is TRUE for the stored mapping itself and   *)
(* FALSE for a deep copy, which starts equal to the stored mapping.        *)
Handle(kind, live, value, finalized) ==
  [kind |-> kind, live |-> live, value |-> value, after_finalize |-> finalized]

NoHandle == Handle("none", FALSE, NoDict, FALSE)

logs_AlwaysLive(p) == Handle("logs", TRUE, p._logs, p._finalized)

logs(p) == Handle("logs", ~p._finalized, p._logs, p._finalized)

perf_logs(p) == Handle("perf_logs", ~p._finalized, p._perf_logs, p._finalized)

(* finalize: the flag is set first; what follows only reads the object. *)
finalize(p) == [p EXCEPT !._finalized = TRUE]

(* mapping[name] = [line] and mapping[name].append(line) *)
SetItem(d, name, line) == Put(d, name, <<line>>)
AppendLine(d, name, line) == Put(d, name, Append(d[name], line))

LogNames == {"stdout", "json"}
LogLines == {"x", "y"}
StatusValues == {"SUCCESS", "FAILURE", "bogus"}
TextValues == {"3 failed"}
MaxPresentationCalls == 5

PresIdle ==
  /\ pres_pc = "idle"
  /\ _finalized = FALSE
  /\ _status = "None"
  /\ _step_text = "None"
  /\ _step_summary_text = "None"
  /\ _logs = NoDict
  /\ _perf_logs = NoDict
  /\ held = NoHandle
  /\ last_call = ""
  /\ pres_error = ""
  /\ pres_calls = 0

PresInit ==
  /\ pres_pc = "live"
  /\ _finalized = StepPresentationInit._finalized
  /\ _status = StepPresentationInit._status
  /\ _step_text = StepPresentationInit._step_text
  /\ _step_summary_text = StepPresentationInit._step_summary_text
  /\ _logs = StepPresentationInit._logs
  /\ _perf_logs = StepPresentationInit._perf_logs
  /\ held = NoHandle
  /\ last_call = ""
  /\ pres_error = ""
  /\ pres_calls = 0

(* One call on the presentation: the object becomes r.p, the call raised   *)
(* r.error.                                                                *)
Called(member, r) ==
  /\ pres_pc = "live"
  /\ pres_calls < MaxPresentationCalls
  /\ pres_calls' = pres_calls + 1
  /\ last_call' = member
  /\ pres_error' = r.error
  /\ _finalized' = r.p._finalized
  /\ _status' = r.p._status
  /\ _step_text' = r.p._step_text
  /\ _step_summary_text' = r.p._step_summary_text
  /\ _logs' = r.p._logs
  /\ _perf_logs' = r.p._perf_logs
  /\ UNCHANGED pres_pc

SetStatus(val) ==
  Called("status", status_setter(Presentation, val)) /\ UNCHANGED held

SetStepText(val) ==
  Called("step_text", step_text_setter(Presentation, val)) /\ UNCHANGED held

SetStepSummaryText(val) ==
  /\ Called("step_summary_text", step_summary_text_setter(Presentation, val))
  /\ UNCHANGED held

Finalize == Called("finalize", Returned(finalize(Presentation))) /\ UNCHANGED held

ReadLogs ==
  Called("logs", Returned(Presentation)) /\ held' = logs(Presentation)

ReadPerfLogs ==
  /\ Called("perf_logs", Returned(Presentation))
  /\ held' = perf_logs(Presentation)

(* The caller changes the mapping it holds; a change of the stored mapping *)
(* itself is a change of the presentation.                                 *)
Mutated(value) ==
  IF ~held.live THEN Presentation
  ELSE IF held.kind = "logs" THEN [Presentation EXCEPT !._logs = value]
  ELSE [Presentation EXCEPT !._perf_logs = value]

MutateSetItem(name, line) ==
  /\ held.kind # "none"
  /\ Called("mutate", Returned(Mutated(SetItem(held.value, name, line))))
  /\ held' = [held EXCEPT !.value = SetItem(held.value, name, line)]

MutateAppend(name, line) ==
  /\ held.kind # "none"
  /\ name \in DOMAIN held.value
  /\ Called("mutate", Returned(Mutated(AppendLine(held.value, name, line))))
  /\ held' = [held EXCEPT !.value = AppendLine(held.value, name, line)]

(***************************************************************************)
(* run_steps: the orchestration loop.                                      *)
(***************************************************************************)
(* The return codes annotator.run_step hands to the callback. *)
Retcodes == {-1, 0, 1}

(* StepData.__init__.  bound stands for the attribute call_placeholders    *)
(* sets on the result; trace lists the calls _inner made on the result,    *)
(* each with what the callee could observe when it was called.             *)
StepData(step, retcode) ==
  [_step |-> step, _retcode |-> retcode,
   _presentation |-> StepPresentationInit, bound |-> FALSE, trace |-> <<>>]

HistoryNames(history) == {history[i]._step.name : i \in 1..Len(history)}

InStepHistory_Never(name, history) == FALSE

(* step['name'] in step_history *)
InStepHistory(name, history) == name \in HistoryNames(history)

(* step_history[name] = step_result on an OrderedDict: a new key goes to   *)
(* the end, an existing key keeps its place and gets the new value.        *)
HistoryPut_Front(history, name, step_result) ==
  IF \E i \in 1..Len(history) : history[i]._step.name = name
  THEN [i \in 1..Len(history) |->
          IF history[i]._step.name = name THEN step_result ELSE history[i]]
  ELSE <<step_result>> \o history

HistoryPut(history, name, step_result) ==
  IF \E i \in 1..Len(history) : history[i]._step.name = name
  THEN [i \in 1..Len(history) |->
          IF history[i]._step.name = name THEN step_result ELSE history[i]]
  ELSE Append(history, step_result)

(* annotator.update_build_failure(failed, retcode, **step): the failure     *)
(* state is kept, and a non-zero return code of a step that does not       *)
(* declare continue-on-failure enters it.                                  *)
update_build_failure(failure, retcode, step) ==
  failure \/ (retcode # 0 /\ ~step.continue_on_failure)

(* MakeStepsRetval(0 if not failed else 1, step_history) *)
ExitCode_AlwaysZero(failure) == 0
ExitCode(failure) == IF failure THEN 1 ELSE 0

(* The convenience functions of step_history; NoStep stands for None. *)
NoStep == StepData(Step(""), 0)
last_step(history) ==
  IF history = <<>> THEN NoStep ELSE history[Len(history)]
nth_step(history, n) ==
  IF n \in 1..Len(history) THEN history[n] ELSE NoStep

(* _inner of step_callback works on the result and on step_history; once  *)
(* the result is stored in step_history, the stored entry is the result    *)
(* itself, so what is done to the one is done to the other.                *)
Aliased(history, step_result) ==
  [step_result |-> step_result,
   step_history |->
     IF InStepHistory(step_result._step.name, history)
     THEN HistoryPut(history, step_result._step.name, step_result)
     ELSE history]

Traced(c, call) ==
  Aliased(c.step_history,
          [c.step_result EXCEPT
             !.trace = Append(@,
               [call |-> call,
                in_history |-> InStepHistory(c.step_result._step.name,
                                             c.step_history),
                finalized |-> c.step_result._presentation._finalized,
                bound |-> c.step_result.bound])])

(* if retcode > 0: step_result.presentation.status = 'FAILURE' *)
FailureStatus(c) ==
  IF c.step_result._retcode > 0
  THEN LET t == Traced(c, "status")
       IN Aliased(t.step_history,
                  [t.step_result EXCEPT
                     !._presentation = status_setter(@, "FAILURE").p])
  ELSE c

(* step_history[step['name']] = step_result *)
Stored(c) ==
  LET t == Traced(c, "step_history")
  IN [step_result |-> t.step_result,
      step_history |-> HistoryPut(t.step_history, t.step_result._step.name,
                                  t.step_result)]

(* call_placeholders(step_result, placeholders, test_data_item) *)
call_placeholders(c) ==
  LET t == Traced(c, "call_placeholders")
  IN IF t.step_result._step.has_placeholder
     THEN Aliased(t.step_history, [t.step_result EXCEPT !.bound = TRUE])
     ELSE t

(* if followup_fn: followup_fn(step_result) *)
followup_fn(c) ==
  IF c.step_result._step.followup_fn = "" THEN c
  ELSE LET t == Traced(c, "followup_fn")
       IN IF t.step_result._step.followup_fn = "set_warning"
          THEN Aliased(t.step_history,
                       [t.step_result EXCEPT
                          !._presentation = status_setter(@, "WARNING").p])
          ELSE t

(* step_result.presentation.finalize(annotator_step) *)
Finalized(c) ==
  LET t == Traced(c, "finalize")
  IN Aliased(t.step_history,
             [t.step_result EXCEPT !._presentation = finalize(@)])

_inner_FollowupFirst(step, retcode, history) ==
  Finalized(call_placeholders(followup_fn(Stored(FailureStatus(
    [step_result |-> StepData(step, retcode), step_history |-> history])))))

_inner_StoredLast(step, retcode, history) ==
  Stored(Finalized(followup_fn(call_placeholders(FailureStatus(
    [step_result |-> StepData(step, retcode), step_history |-> history])))))

_inner_FinalizedTwice(step, retcode, history) ==
  Finalized(Finalized(followup_fn(call_placeholders(Stored(FailureStatus(
    [step_result |-> StepData(step, retcode), step_history |-> history]))))))

_inner(step, retcode, history) ==
  Finalized(followup_fn(call_placeholders(Stored(FailureStatus(
    [step_result |-> StepData(step, retcode), step_history |-> history])))))

VARIABLES
  run_pc,        \* "idle", "setup", "executing", "done", "fault"
  steps,         \* the generators being iterated, the recipe's first, each
                 \* as the items it has not yielded yet
  batch,         \* the steps of the item yielded last, not yet executed
  step_history,  \* OrderedDict of step name -> StepData, in insertion order
  failed,
  executed,      \* names of the steps handed to annotator.run_step, in order
  run_fault,     \* the assertion that ended the run, "" for none
  status_code,   \* MakeStepsRetval.status_code, -1 while the run goes on
  setup_step,    \* the 'setup_build' step: its status and step text
  recipe_form,   \* "module" for 'module:example', "path" for a recipe name
  recipe_found,  \* whether the lookup of the recipe succeeds
  recipe,        \* what GenSteps yields, as the run started
  retcodes,      \* the return codes of the executed steps, in order
  batch_from,    \* the generator that yielded the batch: its place in
                 \* steps, whether the batch's steps set 'keep_going', and
                 \* the names of the steps of the item as it was yielded
  resumed,       \* the latest resumption of a generator: the item it had
                 \* yielded before, and the names in step_history, in
                 \* order, as the generator finds them
  test_mode,     \* test_data is not None
  canned,        \* test_data as handed to run_steps: entries by step name
  test_data      \* the entries no step has popped yet

runVars == <<run_pc, steps, batch, step_history, failed, executed, run_fault,
             status_code, setup_step, recipe_form, recipe_found, recipe,
             retcodes, batch_from, resumed, test_mode, canned, test_data>>

NoBatch == [depth |-> 0, keep_going |-> FALSE, yielded |-> <<>>]
NoResume == [item |-> <<>>, recorded |-> <<>>]
SetupStep(status, step_text) == [status |-> status, step_text |-> step_text]

RunIdle ==
  /\ run_pc = "idle"
  /\ steps = <<>>
  /\ batch = <<>>
  /\ step_history = <<>>
  /\ failed = FALSE
  /\ executed = <<>>
  /\ run_fault = ""
  /\ status_code = -1
  /\ setup_step = SetupStep("None", "")
  /\ recipe_form = ""
  /\ recipe_found = FALSE
  /\ recipe = <<>>
  /\ retcodes = <<>>
  /\ batch_from = NoBatch
  /\ resumed = NoResume
  /\ test_mode = FALSE
  /\ canned = {}
  /\ test_data = {}

(* test_data: a dict of step name -> dict, whose '$R' key, when there, is  *)
(* the return code the step is to have.                                    *)
TestDatum(name, has_R, R) == [name |-> name, has_R |-> has_R, R |-> R]

(* test_data_item.pop('$R', 0) of test_data.pop(step['name'], {}) *)
CannedRetcode(data, name) ==
  IF \E e \in data : e.name = name /\ e.has_R
  THEN (CHOOSE e \in data : e.name = name).R
  ELSE 0

Popped(data, name) == {e \in data : e.name # name}

UnconsumedTestData == "Unconsumed test data!"
(* assert not test_mode or test_data == {} *)
Unconsumed_Ignored(mode, data) == FALSE
Unconsumed(mode, data) == mode /\ data # {}

(* The recipes: GenSteps returns a generator (assert inspect.isgenerator)   *)
(* that yields steps, sequences of steps and generators of steps.          *)
RunStepNames == {"a", "b", "c"}
MaxRecipeItems == 2

DistinctPairs ==
  {<<n, m>> : n \in RunStepNames, m \in RunStepNames}
    \ {<<n, n>> : n \in RunStepNames}
SortedPairs == {<<"a", "b">>, <<"a", "c">>, <<"b", "c">>}

RecipeItems ==
  {Step(n) : n \in RunStepNames}
    \cup {ContinuingStep(n) : n \in RunStepNames}
    \cup {Sequence(<<Step(p[1]), Step(p[2])>>) : p \in SortedPairs}
    \cup {Generator(<<Step(p[1]), Step(p[2])>>) : p \in DistinctPairs}
    \cup {Generator(<<KeepGoingStep(p[1]), Step(p[2])>>) : p \in SortedPairs}

Recipes == UNION {[1..n -> RecipeItems] : n \in 0..MaxRecipeItems}

RunInitWith(recipes, mode, data) ==
  /\ test_mode = mode
  /\ canned \in data
  /\ test_data = canned
  /\ run_pc = "setup"
  /\ recipe \in recipes
  /\ steps = <<>>
  /\ batch = <<>>
  /\ step_history = <<>>
  /\ failed = FALSE
  /\ executed = <<>>
  /\ run_fault = ""
  /\ status_code = -1
  /\ setup_step = SetupStep("None", "")
  /\ recipe_form \in {"module", "path"}
  /\ recipe_found \in BOOLEAN
  /\ retcodes = <<>>
  /\ batch_from = NoBatch
  /\ resumed = NoResume

RunInitOver(recipes) == RunInitWith(recipes, FALSE, {{}})

RunInit == RunInitOver(Recipes)

(* next() of ensure_sequence_of_steps(steps): the innermost generator is   *)
(* resumed; a step or a sequence it yields is the next batch, a generator  *)
(* it yields is iterated before it is resumed again, and an exhausted      *)
(* generator hands over to the one that yielded it.                        *)
InvalidStepShape == "Item is not a sequence or a step"
TypeError == "TypeError"

RECURSIVE PullItem(_)
PullItem(stack) ==
  IF stack = <<>>
  THEN [batch |-> <<>>, steps |-> <<>>, depth |-> 0, fault |-> ""]
  ELSE LET top == stack[Len(stack)]
           below == SubSeq(stack, 1, Len(stack) - 1)
       IN IF top = <<>> THEN PullItem(below)
          ELSE LET item == Head(top)
                   rest == Append(below, Tail(top))
               IN IF item.t = "gen" THEN PullItem(Append(rest, item.items))
                  ELSE IF item.t = "other"
                  THEN [batch |-> <<>>, steps |-> rest, depth |-> Len(stack),
                        fault |-> InvalidStepShape]
                  ELSE IF /\ item.t = "seq"
                          /\ fixup_seed_steps_raises(flattened(item.items))
                  THEN [batch |-> <<>>, steps |-> rest, depth |-> Len(stack),
                        fault |-> TypeError]
                  ELSE LET out == ensure_sequence_of_steps(item)
                       IN IF out = <<>> THEN PullItem(rest)
                          ELSE [batch |-> out, steps |-> rest,
                                depth |-> Len(stack), fault |-> ""]

StepNamesOf(b) == [i \in 1..Len(b) |-> b[i].name]

(* The for loop of run_steps asks for the next step: while steps of the    *)
(* item yielded last are left, the generator is not resumed.  yields lists *)
(* what each resumption of the generator yielded.                          *)
Pull_Ahead(b, stack) ==
  IF b # <<>>
  THEN [batch |-> b, steps |-> stack, depth |-> 0, yields |-> <<>>,
        fault |-> ""]
  ELSE LET first == PullItem(stack)
           second == PullItem(first.steps)
       IN [batch |-> first.batch \o second.batch, steps |-> second.steps,
           depth |-> IF second.batch = <<>> THEN first.depth
                     ELSE second.depth,
           fault |-> IF first.fault # "" THEN first.fault ELSE second.fault,
           yields |-> <<StepNamesOf(first.batch),
                        StepNamesOf(second.batch)>>]

Pull(b, stack) ==
  IF b # <<>>
  THEN [batch |-> b, steps |-> stack, depth |-> 0, yields |-> <<>>,
        fault |-> ""]
  ELSE LET item == PullItem(stack)
       IN [batch |-> item.batch, steps |-> item.steps, depth |-> item.depth,
           fault |-> item.fault,
           yields |-> <<StepNamesOf(item.batch)>>]

(* What the generator resumed last finds: the item it yielded before this  *)
(* resumption, and step_history as it is when the generator runs on.       *)
Resumed(next, from, history, before) ==
  IF next.yields = <<>> THEN before
  ELSE [item |-> IF Len(next.yields) = 1 THEN from.yielded
                 ELSE next.yields[Len(next.yields) - 1],
        recorded |-> [i \in 1..Len(history) |-> history[i]._step.name]]

DuplicateStepName == "Step is already in step_history!"

(* with stream.step('setup_build'): the recipe is looked up, as an         *)
(* attribute of a recipe module for 'module:example' and on the recipe     *)
(* paths otherwise.  When it is missing the run returns                    *)
(* MakeStepsRetval(2, None).                                               *)
SetupBuild_IgnoresMissing ==
  /\ run_pc = "setup"
  /\ run_pc' = "executing"
  /\ steps' = <<recipe>>
  /\ UNCHANGED <<setup_step, status_code>>
  /\ UNCHANGED <<batch, step_history, failed, executed, run_fault, recipe,
                 retcodes, batch_from, resumed, recipe_form, recipe_found,
                 test_mode, canned, test_data>>

SetupBuild ==
  /\ run_pc = "setup"
  /\ IF recipe_found
     THEN /\ run_pc' = "executing"
          /\ steps' = <<recipe>>
          /\ UNCHANGED <<setup_step, status_code>>
     ELSE /\ run_pc' = "done"
          /\ setup_step' = SetupStep("FAILURE", "recipe not found")
          /\ status_code' = 2
          /\ UNCHANGED steps
  /\ UNCHANGED <<batch, step_history, failed, executed, run_fault, recipe,
                 retcodes, batch_from, resumed, recipe_form, recipe_found,
                 test_mode, canned, test_data>>

(* One iteration of 'for step in ensure_sequence_of_steps(steps)'. *)
RunStep_SkipsAfterFailure(retcode) ==
  /\ run_pc = "executing"
  /\ LET next == Pull(batch, steps)
         step == Head(next.batch)
     IN /\ next.batch # <<>> \/ next.fault # ""
        /\ steps' = next.steps
        /\ batch_from' =
             IF next.depth = 0 THEN batch_from
             ELSE [depth |-> next.depth,
                   keep_going |-> \A i \in 1..Len(next.batch) :
                                    next.batch[i].keep_going,
                   yielded |-> next.yields[Len(next.yields)]]
        /\ resumed' = Resumed(next, batch_from, step_history, resumed)
        /\ IF next.fault # "" \/ step.t = "other"
           THEN /\ run_pc' = "fault"
                /\ run_fault' =
                     IF next.fault # "" THEN next.fault ELSE TypeError
                /\ batch' = next.batch
                /\ UNCHANGED <<step_history, failed, executed, status_code,
                               retcodes, test_data>>
           ELSE IF InStepHistory(step.name, step_history)
           THEN /\ run_pc' = "fault"
                /\ run_fault' = DuplicateStepName
                /\ batch' = next.batch
                /\ test_data' = Popped(test_data, step.name)
                /\ UNCHANGED <<step_history, failed, executed, status_code,
                               retcodes>>
           ELSE LET code == IF test_mode
                            THEN CannedRetcode(test_data, step.name)
                            ELSE retcode
                IN
                /\ test_data' = Popped(test_data, step.name)
                /\ executed' = IF test_mode THEN executed
                               ELSE Append(executed, step.name)
                /\ retcodes' = Append(retcodes, code)
                /\ step_history' =
                     _inner(step, code, step_history).step_history
                /\ failed' = update_build_failure(failed, code, step)
                /\ batch' = IF failed' THEN <<>> ELSE Tail(next.batch)
                /\ UNCHANGED <<run_pc, run_fault, status_code>>
        /\ UNCHANGED <<setup_step, recipe_form, recipe_found, recipe,
                       test_mode, canned>>

RunStep(retcode) ==
  /\ run_pc = "executing"
  /\ LET next == Pull(batch, steps)
         step == Head(next.batch)
     IN /\ next.batch # <<>> \/ next.fault # ""
        /\ steps' = next.steps
        /\ batch_from' =
             IF next.depth = 0 THEN batch_from
             ELSE [depth |-> next.depth,
                   keep_going |-> \A i \in 1..Len(next.batch) :
                                    next.batch[i].keep_going,
                   yielded |-> next.yields[Len(next.yields)]]
        /\ resumed' = Resumed(next, batch_from, step_history, resumed)
        /\ IF next.fault # "" \/ step.t = "other"
           THEN /\ run_pc' = "fault"
                /\ run_fault' =
                     IF next.fault # "" THEN next.fault ELSE TypeError
                /\ batch' = next.batch
                /\ UNCHANGED <<step_history, failed, executed, status_code,
                               retcodes, test_data>>
           ELSE IF InStepHistory(step.name, step_history)
           THEN /\ run_pc' = "fault"
                /\ run_fault' = DuplicateStepName
                /\ batch' = next.batch
                /\ test_data' = Popped(test_data, step.name)
                /\ UNCHANGED <<step_history, failed, executed, status_code,
                               retcodes>>
           ELSE LET code == IF test_mode
                            THEN CannedRetcode(test_data, step.name)
                            ELSE retcode
                IN
                /\ test_data' = Popped(test_data, step.name)
                /\ executed' = IF test_mode THEN executed
                               ELSE Append(executed, step.name)
                /\ retcodes' = Append(retcodes, code)
                /\ step_history' =
                     _inner(step, code, step_history).step_history
                /\ failed' = update_build_failure(failed, code, step)
                /\ batch' = Tail(next.batch)
                /\ UNCHANGED <<run_pc, run_fault, status_code>>
        /\ UNCHANGED <<setup_step, recipe_form, recipe_found, recipe,
                       test_mode, canned>>

(* The generator is exhausted: in test mode the test data must be used up, *)
(* and the run returns MakeStepsRetval.                                    *)
RunReturn ==
  /\ run_pc = "executing"
  /\ Pull(batch, steps).batch = <<>>
  /\ Pull(batch, steps).fault = ""
  /\ IF Unconsumed(test_mode, test_data)
     THEN /\ run_pc' = "fault"
          /\ run_fault' = UnconsumedTestData
          /\ UNCHANGED status_code
     ELSE /\ run_pc' = "done"
          /\ status_code' = ExitCode(failed)
          /\ UNCHANGED run_fault
  /\ steps' = <<>>
  /\ resumed' = Resumed(Pull(batch, steps), batch_from, step_history, resumed)
  /\ UNCHANGED <<batch, step_history, failed, executed,
                 setup_step, recipe_form, recipe_found, recipe, retcodes,
                 batch_from, test_mode, canned, test_data>>

(***************************************************************************)
(* annotated_run.shell_main: the self-update protocol.  A process is an    *)
(* interpreter running annotated_run.py; a child inherits the environment  *)
(* of the process that called it.                                          *)
(***************************************************************************)
VARIABLES
  procs,   \* the chain of processes, the invocation first: each with its
           \* place in shell_main, its os.environ, the environment it was
           \* started with, sys.platform and its exit status (-1: running)
  synced   \* the 'gclient sync --force' calls made so far, in order: the
           \* name of the executable and its return code

shellVars == <<procs, synced>>

MaxShellDepth == 3

RUN_SLAVE_UPDATED_SCRIPTS == "RUN_SLAVE_UPDATED_SCRIPTS"

\* os.environ is a set of (name, value) pairs with one pair for a name
EnvironGet(environ, name) == {e.value : e \in {x \in environ : x.name = name}}

EnvironPop(environ, name) == {e \in environ : e.name # name}

EnvironSet(environ, name, value) ==
  EnvironPop(environ, name) \cup {[name |-> name, value |-> value]}

\* truth of os.environ.get(name): unset and '' are both false
EnvironTruthy(environ, name) == \E v \in EnvironGet(environ, name) : v # ""

gclient_name(platform) ==
  IF platform = "win32" THEN "gclient.bat" ELSE "gclient"

\* UpdateScripts() in a process of the given environment, where the call of
\* 'gclient sync' returns sync: the environment it leaves, its return value,
\* the call it made and whether the step was given a warning
UpdateScripts_Unmarked(environ, platform, sync) ==
  IF EnvironTruthy(environ, RUN_SLAVE_UPDATED_SCRIPTS)
  THEN [environ |-> EnvironPop(environ, RUN_SLAVE_UPDATED_SCRIPTS),
        updated |-> FALSE, called |-> <<>>, warned |-> FALSE]
  ELSE [environ |-> environ,
        updated |-> TRUE,
        called |-> <<[name |-> gclient_name(platform), retcode |-> sync]>>,
        warned |-> sync # 0]

UpdateScripts(environ, platform, sync) ==
  IF EnvironTruthy(environ, RUN_SLAVE_UPDATED_SCRIPTS)
  THEN [environ |-> EnvironPop(environ, RUN_SLAVE_UPDATED_SCRIPTS),
        updated |-> FALSE, called |-> <<>>, warned |-> FALSE]
  ELSE [environ |-> EnvironSet(environ, RUN_SLAVE_UPDATED_SCRIPTS, "1"),
        updated |-> TRUE,
        called |-> <<[name |-> gclient_name(platform), retcode |-> sync]>>,
        warned |-> sync # 0]

Process(environ, platform) ==
  [pc |-> "shell_main", environ |-> environ, inherited |-> environ,
   platform |-> platform, warned |-> FALSE, status |-> -1]

\* shell_main up to the branch on UpdateScripts()
shell_main(sync) ==
  LET i == Len(procs) IN
  /\ i > 0
  /\ procs[i].pc = "shell_main"
  /\ \E u \in {UpdateScripts(procs[i].environ, procs[i].platform, sync)} :
       /\ procs' = [procs EXCEPT ![i].environ = u.environ,
                                 ![i].warned = u.warned,
                                 ![i].pc = IF u.updated THEN "call" ELSE "main"]
       /\ synced' = synced \o u.called

\* subprocess.call([sys.executable] + argv): the child starts
subprocess_call ==
  LET i == Len(procs) IN
  /\ i > 0
  /\ i < MaxShellDepth
  /\ procs[i].pc = "call"
  /\ procs' = Append([procs EXCEPT ![i].pc = "wait"],
                     Process(procs[i].environ, procs[i].platform))
  /\ UNCHANGED synced

\* main(argv) runs and the process exits with what it returns
shell_main_main(retval) ==
  LET i == Len(procs) IN
  /\ i > 0
  /\ procs[i].pc = "main"
  /\ procs' = [procs EXCEPT ![i].pc = "exit", ![i].status = retval]
  /\ UNCHANGED synced

\* subprocess.call returns the child's exit status, which the process
\* hands to sys.exit
subprocess_returns ==
  \E i \in 1..(Len(procs) - 1) :
    /\ procs[i].pc = "wait"
    /\ procs[i + 1].pc = "exit"
    /\ procs' = [procs EXCEPT ![i].pc = "exit",
                              ![i].status = procs[i + 1].status]
    /\ UNCHANGED synced

ShellIdle == procs = <<>> /\ synced = <<>>

(***************************************************************************)
(* SVNPoller.get_new_logentries over the polls of one repository.          *)
(***************************************************************************)
VARIABLES
  svn_log,       \* the repository's log for svnurl, newest first
  last_change,   \* SVNPoller.last_change, None before the first poll
  polled         \* what each poll so far was given and returned, in order

pollVars == <<svn_log, last_change, polled>>

MaxRevisions == 4
MaxPolls == 4

None == -1

histmax == 100

ChromeBot == "chrome-bot@google.com"

Authors == {ChromeBot, "alice@chromium.org"}

\* 'svn log --limit=histmax': the newest histmax entries
get_logs(repository) ==
  SubSeq(repository, 1,
         IF Len(repository) < histmax THEN Len(repository) ELSE histmax)

\* the entries the loop collects before it meets the revision last_change
RECURSIVE Collected(_, _)
Collected(logentries, change) ==
  IF logentries = <<>> THEN <<>>
  ELSE IF Head(logentries).revision = change THEN <<>>
  ELSE <<Head(logentries)>> \o Collected(Tail(logentries), change)

Reversed(s) == [i \in 1..Len(s) |-> s[Len(s) + 1 - i]]

\* get_new_logentries without the step back to the second newest revision
get_new_logentries_NoStepBack(logentries, change) ==
  LET newest == IF logentries = <<>> THEN None ELSE logentries[1].revision
      found == IF logentries = <<>> \/ change = None \/ change = newest
               THEN <<>>
               ELSE Reversed(Collected(logentries, change))
      skip == found # <<>> /\ found[Len(found)].author = ChromeBot
  IN  [new_logentries |-> IF skip THEN SubSeq(found, 1, Len(found) - 1)
                          ELSE found,
       last_change |-> newest, fault |-> ""]

\* get_new_logentries: what it returns and the last_change it leaves; a
\* fault leaves last_change as it was and returns nothing
get_new_logentries(logentries, change) ==
  LET newest == IF logentries = <<>> THEN None ELSE logentries[1].revision
      found == IF logentries = <<>> \/ change = None \/ change = newest
               THEN <<>>
               ELSE Reversed(Collected(logentries, change))
      skip == found # <<>> /\ found[Len(found)].author = ChromeBot
  IN  IF ~skip
      THEN [new_logentries |-> found, last_change |-> newest, fault |-> ""]
      ELSE IF Len(logentries) < 2
      THEN [new_logentries |-> <<>>, last_change |-> change,
            fault |-> "IndexError"]
      ELSE [new_logentries |-> SubSeq(found, 1, Len(found) - 1),
            last_change |-> logentries[2].revision, fault |-> ""]

\* a commit to svnurl: the log grows at its newest end
Commit(author) ==
  /\ Len(svn_log) < MaxRevisions
  /\ svn_log' = <<[revision |-> Len(svn_log) + 1, author |-> author]>>
                  \o svn_log
  /\ UNCHANGED <<last_change, polled>>

\* poll(): get_logs, parse_logs, get_new_logentries
poll ==
  /\ Len(polled) < MaxPolls
  /\ \E r \in {get_new_logentries(get_logs(svn_log), last_change)} :
       /\ last_change' = r.last_change
       /\ polled' = Append(polled, [logentries |-> get_logs(svn_log),
                                    last_change |-> last_change,
                                    new_logentries |-> r.new_logentries,
                                    fault |-> r.fault])
  /\ UNCHANGED svn_log

PollIdle == svn_log = <<>> /\ last_change = None /\ polled = <<>>

vars == <<parserVars, seqVars, runVars, presVars, shellVars, pollVars>>

ParserIdle == ParserInit({}, 0)

(***************************************************************************)
(* Specifications.                                                         *)
(***************************************************************************)
NextParser ==
  (\E line \in log_lines : ProcessLine(line)) /\ UNCHANGED <<seqVars, runVars, presVars, shellVars, pollVars>>

NextSequencer == EnsureSequenceOfSteps /\ UNCHANGED <<parserVars, runVars, presVars, shellVars, pollVars>>

NextRun ==
  \/ SetupBuild /\ UNCHANGED <<parserVars, seqVars, presVars, shellVars, pollVars>>
  \/ (\E retcode \in Retcodes : RunStep(retcode))
       /\ UNCHANGED <<parserVars, seqVars, presVars, shellVars, pollVars>>
  \/ RunReturn /\ UNCHANGED <<parserVars, seqVars, presVars, shellVars, pollVars>>

InitSequencer ==
  /\ seq_source \in Sources
  /\ seq_out = <<>>
  /\ seq_pc = "ready"
  /\ ParserIdle
  /\ RunIdle
  /\ PresIdle /\ ShellIdle /\ PollIdle

SpecSequencer == InitSequencer /\ [][NextSequencer]_vars

InitRun == RunInit /\ ParserIdle /\ SeqIdle /\ PresIdle /\ ShellIdle /\ PollIdle

SpecRun == InitRun /\ [][NextRun]_vars

(* Runs of recipes whose steps carry follow-up callbacks and placeholders. *)
MaxCallbackItems == 2

CallbackSteps ==
  {FollowupStep(n, fn) : n \in {"a", "b"}, fn \in {"", "set_warning", "read"}}
    \cup {PlaceholderStep(n, fn) :
            n \in {"a", "b"}, fn \in {"", "set_warning", "read"}}

CallbackRecipes == UNION {[1..n -> CallbackSteps] : n \in 0..MaxCallbackItems}

(* Runs of recipes that hold an object that is no step, no sequence and no *)
(* generator, yielded by a generator or put into a list of steps.          *)
MaxShapeItems == 2

ShapeItems ==
  {Step("a"), Step("b"), Other,
   Sequence(<<Step("a"), Other>>),
   Sequence(<<SeededStep("c", <<"c", "d">>), Other>>),
   Generator(<<Step("b"), Other>>),
   Generator(<<Other, Step("b")>>)}

ShapeRecipes == UNION {[1..n -> ShapeItems] : n \in 0..MaxShapeItems}

InitShape == RunInitOver(ShapeRecipes) /\ ParserIdle /\ SeqIdle /\ PresIdle /\ ShellIdle /\ PollIdle

SpecShape == InitShape /\ [][NextRun]_vars

(* Runs in test mode: the steps get their return codes from test_data.    *)
MaxTestItems == 2
TestNames == {"a", "b", "c"}

TestItems ==
  {Step("a"), Step("b"), ContinuingStep("a"),
   Sequence(<<Step("a"), Step("b")>>)}

TestRecipes == UNION {[1..n -> TestItems] : n \in 0..MaxTestItems}

TestEntries(name) ==
  {TestDatum(name, FALSE, 0), TestDatum(name, TRUE, 0),
   TestDatum(name, TRUE, 1)}

TestData ==
  {data \in SUBSET UNION {TestEntries(name) : name \in TestNames} :
     \A e \in data, f \in data : e.name = f.name => e = f}

InitTestMode ==
  RunInitWith(TestRecipes, TRUE, TestData) /\ ParserIdle /\ SeqIdle /\ PresIdle /\ ShellIdle /\ PollIdle

SpecTestMode == InitTestMode /\ [][NextRun]_vars

InitCallback ==
  RunInitOver(CallbackRecipes) /\ ParserIdle /\ SeqIdle /\ PresIdle /\ ShellIdle /\ PollIdle

SpecCallback == InitCallback /\ [][NextRun]_vars

NextPresentation ==
  /\ \/ \E val \in StatusValues : SetStatus(val)
     \/ \E val \in TextValues : SetStepText(val)
     \/ \E val \in TextValues : SetStepSummaryText(val)
     \/ Finalize
     \/ ReadLogs
     \/ ReadPerfLogs
     \/ \E name \in LogNames, line \in LogLines : MutateSetItem(name, line)
     \/ \E name \in LogNames, line \in LogLines : MutateAppend(name, line)
  /\ UNCHANGED <<parserVars, seqVars, runVars, shellVars, pollVars>>

InitPresentation ==
  PresInit /\ ParserIdle /\ SeqIdle /\ RunIdle /\ ShellIdle /\ PollIdle

SpecPresentation == InitPresentation /\ [][NextPresentation]_vars

(***************************************************************************)
(* The test lifecycle: logs of RUN / OK / FAILED lines of three tests,     *)
(* output lines, the retry banner, the passed banner, a shard summary, a   *)
(* timeout message and lines with an embedded marker.                      *)
(***************************************************************************)
MaxLifecycleLines == 4

LifecycleLines ==
  {Run(t) : t \in Tests} \cup {Ok(t) : t \in Tests}
    \cup {Failed(t) : t \in Tests}
    \cup {Text("x"), Retry, Passed, FailingTests}
    \cup {Shard("Foo.Bar"), Timeout("Foo.Bar"), Name("Foo.Bar")}
    \cup {Text("x") \o Run("Foo.Bar"), Text("x") \o Ok("Foo.Bar")}

InitLifecycle ==
  ParserInit(LifecycleLines, MaxLifecycleLines) /\ SeqIdle /\ RunIdle /\ PresIdle /\ ShellIdle /\ PollIdle

SpecLifecycle == InitLifecycle /\ [][NextParser]_vars

(* C1: a '[ RUN ] T' line directly followed by '[ OK ] T', retry mode not  *)
(* set, leaves T with status 'OK' and an empty description, and T is not   *)
(* in FailedTests(), whatever the flags and whatever came before.          *)
C1_RunThenOkIsOk ==
  \A t \in Tests :
    (prev_line = Run(t) /\ last_line = Ok(t) /\ ~retrying_failed)
      => /\ t \in DOMAIN _test_status
         /\ _test_status[t] = Entry("OK", <<>>)
         /\ \A f1 \in BOOLEAN, f2 \in BOOLEAN :
              t \notin FailedTests(Parser, f1, f2)

C1_Witness ==
  \E t \in Tests :
    /\ prev_line = Run(t) /\ last_line = Ok(t) /\ ~retrying_failed
    /\ _line_number = 4
    /\ StatusOfTest(Parser, t) = "OK"
    /\ \E u \in Tests \ {t} : StatusOfTest(Parser, u) = "timeout"

(* C2: every test with status 'started' is in RunningTests() and in        *)
(* FailedTests(), for all values of include_fails and include_flaky and    *)
(* also when its name contains FAILS_ or FLAKY_.                           *)
C2_StartedIsRunningAndFailed ==
  \A t \in Tests :
    StatusOfTest(Parser, t) = "started"
      => /\ t \in RunningTests(Parser)
         /\ \A f1 \in BOOLEAN, f2 \in BOOLEAN :
              t \in FailedTests(Parser, f1, f2)

C2_Witness ==
  /\ StatusOfTest(Parser, "Foo.FAILS_Baz") = "started"
  /\ StatusOfTest(Parser, "Foo.FLAKY_Qux") = "started"
  /\ "Foo.FAILS_Baz" \in FailedTests(Parser, FALSE, FALSE)
  /\ "Foo.FLAKY_Qux" \in FailedTests(Parser, FALSE, FALSE)

MaxBannerLines == 4

BannerLines ==
  {Disabled(0), Disabled(1), Disabled(3), DisabledNaN,
   Flaky(0), Flaky(2), FlakyNaN, Text("x")}

InitBanner == ParserInit(BannerLines, MaxBannerLines) /\ SeqIdle /\ RunIdle /\ PresIdle /\ ShellIdle /\ PollIdle

SpecBanner == InitBanner /\ [][NextParser]_vars

(* C4 as claimed: after a 'YOU HAVE n DISABLED TESTS' banner with n > 0    *)
(* DisabledTests() is the integer n, also when an earlier banner produced  *)
(* 'some'.                                                                 *)
C4_DisabledShowsMostRecentBanner ==
  \A n \in {1, 3} : last_line = Disabled(n) => DisabledTests(Parser) = IntVal(n)

(* C5 as claimed: after a disabled-count (flaky-count) banner whose count  *)
(* is unparsable or not positive, DisabledTests() (FlakyTests()) is the    *)
(* sentinel 'some'.                                                        *)
C5_BadCountGivesSome ==
  /\ last_line \in {Disabled(0), DisabledNaN} => DisabledTests(Parser) = Some
  /\ last_line \in {Flaky(0), FlakyNaN} => FlakyTests(Parser) = Some

(***************************************************************************)
(* Retries: logs of RUN / OK / FAILED lines of two tests, output lines and *)
(* the retry banner.                                                       *)
(***************************************************************************)
MaxRetryLines == 5

RetryTests == {"Foo.Bar", "Foo.FAILS_Baz"}

RetryLines ==
  {Run(t) : t \in RetryTests} \cup {Ok(t) : t \in RetryTests}
    \cup {Failed(t) : t \in RetryTests}
    \cup {Retry, Text("x"), Text("y")}

InitRetry == ParserInit(RetryLines, MaxRetryLines) /\ SeqIdle /\ RunIdle /\ PresIdle /\ ShellIdle /\ PollIdle

SpecRetry == InitRetry /\ [][NextParser]_vars

(* C6: in retry mode a '[ RUN ] T' line followed by '[ OK ] T' leaves T    *)
(* with status 'warning', and FailedTests() reports T unless its name is   *)
(* filtered (FAILS_ without include_fails, FLAKY_ without include_flaky).  *)
C6_OkOnRetryIsWarning ==
  \A t \in Tests :
    (retrying_failed /\ prev_line = Run(t) /\ last_line = Ok(t))
      => /\ StatusOfTest(Parser, t) = "warning"
         /\ \A f1 \in BOOLEAN, f2 \in BOOLEAN :
              t \in FailedTests(Parser, f1, f2)
                <=> (f1 \/ ~ContainsFAILS(t)) /\ (f2 \/ ~ContainsFLAKY(t))

C6_Witness ==
  /\ retrying_failed
  /\ prev_line = Run("Foo.Bar")
  /\ last_line = Ok("Foo.Bar")
  /\ "Foo.Bar" \in DOMAIN retry_snapshot
  /\ retry_snapshot["Foo.Bar"].status = "failed"
  /\ StatusOfTest(Parser, "Foo.Bar") = "warning"
  /\ "Foo.Bar" \in FailedTests(Parser, FALSE, FALSE)

IsPrefix(p, q) == Len(p) <= Len(q) /\ SubSeq(q, 1, Len(p)) = p

(* C7 as claimed: when a test T that failed before the retry banner is run *)
(* again in retry mode and ends with '[ OK ] T' or '[ FAILED ] T', its     *)
(* description is the failure lines recorded before the retry, then '',    *)
(* 'RETRY OUTPUT:', '', then the retry output.                             *)
C7_RetryKeepsOriginalFailureText ==
  [][\A t \in Tests :
       (/\ retrying_failed
        /\ t \in DOMAIN retry_snapshot
        /\ retry_snapshot[t].status = "failed"
        /\ _current_test = t
        /\ StatusOfTest(Parser, t) = "started"
        /\ _line_number' = _line_number + 1
        /\ last_line' \in {Ok(t), Failed(t)})
         => IsPrefix(retry_snapshot[t].desc
                       \o EmptyLine \o RetryOutput \o EmptyLine,
                     _test_status'[t].desc)]_vars

(***************************************************************************)
(* Suppressions: logs of suppression start lines of two hashes, the        *)
(* closing line, output lines, the master-name banner and lines that other *)
(* rules of the parser consume.                                            *)
(***************************************************************************)
MaxSuppressionLines == 5

SuppressionLines ==
  {SuppStart(h) : h \in Hashes}
    \cup {SuppEnd, Text("x"), Text("{"), Master("m"), Passed, Retry,
          Run("Foo.Bar"), Text("x") \o Ok("Foo.Bar")}

InitSuppression ==
  ParserInit(SuppressionLines, MaxSuppressionLines) /\ SeqIdle /\ RunIdle /\ PresIdle /\ ShellIdle /\ PollIdle

SpecSuppression == InitSuppression /\ [][NextParser]_vars

(* C8 as claimed: when a block from a suppression start line for hash H to *)
(* a '}' line is complete, Suppression(H) is the start line, every line in *)
(* between and the closing line, whatever the lines in between are.        *)
C8_SuppressionStoredVerbatim ==
  BlockClosed(block) => Suppression(Parser, block[1][1].a) = block

(* A line that no rule of _ProcessLine before the suppression fallback     *)
(* consumes and that ProcessLine does not split.                           *)
ReachesFallback(line) ==
  /\ SplitPos(line) <= 1
  /\ line[1].k \notin {"shard", "passed", "disabled", "flaky", "run", "ok",
                       "fail", "supp", "retry"}
  /\ ~_test_timeout(line)
  /\ ~_suppression_end(line)

(* C8 amended: when a block from a suppression start line for hash H to a  *)
(* '}' line is complete and every line in between is a line that none of   *)
(* the parser's earlier rules consumes, Suppression(H) is the start line,  *)
(* every line in between in order, and the closing line.                   *)
C8_SuppressionStoresFallbackLines ==
  (/\ BlockClosed(block)
   /\ \A i \in 2..(Len(block) - 1) : ReachesFallback(block[i]))
    => Suppression(Parser, block[1][1].a) = block

C8_Witness ==
  /\ block = <<SuppStart("A1"), Text("{"), Master("m"), SuppEnd>>
  /\ Suppression(Parser, "A1") = block
  /\ _line_number = 5

(***************************************************************************)
(* The step sequencer on its own.                                          *)
(***************************************************************************)
(* C9: ensure_sequence_of_steps yields every leaf step of the source       *)
(* exactly once, in depth-first, left-to-right order.                      *)
C9_FlattenedInDepthFirstOrder ==
  seq_pc = "done"
    => /\ Len(seq_out) = Cardinality(LeafPaths(seq_source))
       /\ \A p \in LeafPaths(seq_source) :
            seq_out[Rank(seq_source, p)].name = NodeAt(seq_source, p).name

C9_Witness ==
  /\ seq_pc = "done"
  /\ seq_source = Sequence(<<Sequence(<<Step("b")>>), Step("a")>>)
  /\ [i \in 1..Len(seq_out) |-> seq_out[i].name] = <<"b", "a">>

(* C18: for a sequence whose first step has no 'seed_steps' key, the first  *)
(* step yielded is that step with 'seed_steps' set to the names of all the *)
(* steps of the sequence, its own included, in order; when the first step  *)
(* has the key it is yielded as it is; every other step of the sequence is *)
(* yielded as it is, and so is a step dictionary given on its own.         *)
LeafAt(node, i) ==
  NodeAt(node, CHOOSE p \in LeafPaths(node) : Rank(node, p) = i)

LeafCount(node) == Cardinality(LeafPaths(node))

C18_SeedStepsOnFirstStepOnly ==
  seq_pc = "done"
    => /\ seq_source.t = "step" => seq_out = <<seq_source>>
       /\ seq_source.t = "seq"
            => /\ Len(seq_out) = LeafCount(seq_source)
               /\ \A i \in 2..LeafCount(seq_source) :
                    seq_out[i] = LeafAt(seq_source, i)
               /\ LeafCount(seq_source) > 0
                    => seq_out[1] =
                         IF LeafAt(seq_source, 1).has_seed_steps
                         THEN LeafAt(seq_source, 1)
                         ELSE [LeafAt(seq_source, 1) EXCEPT
                                 !.has_seed_steps = TRUE,
                                 !.seed_steps =
                                    [i \in 1..LeafCount(seq_source) |->
                                       LeafAt(seq_source, i).name]]

C18_Witness ==
  /\ seq_pc = "done"
  /\ seq_source =
       Sequence(<<Step("a"), SeededStep("c", <<"c", "d">>), Step("b")>>)
  /\ seq_out = <<SeededStep("a", <<"a", "c", "b">>),
                 SeededStep("c", <<"c", "d">>), Step("b")>>

(***************************************************************************)
(* The orchestration loop.                                                 *)
(***************************************************************************)
(* C10: when the next step's name is already a key of step_history, the    *)
(* run ends with the duplicate-step-name assertion, the step is not        *)
(* executed and step_history is left as it is.                             *)
C10_DuplicateStepNameRejected ==
  [][(/\ run_pc = "executing"
      /\ Pull(batch, steps).batch # <<>>
      /\ \E i \in 1..Len(step_history) :
           step_history[i]._step.name = Head(Pull(batch, steps).batch).name)
       => /\ run_pc' = "fault"
          /\ run_fault' = DuplicateStepName
          /\ executed' = executed
          /\ step_history' = step_history]_vars

C10_Witness ==
  /\ run_pc = "fault"
  /\ run_fault = DuplicateStepName
  /\ Len(step_history) = 3
  /\ executed = <<"a", "b", "c">>
  /\ Head(batch).name = "b"

(* C11: at any point of a run step_history holds one StepData per executed *)
(* step, under the step's name and in the order of execution, so that the  *)
(* last entry is the step executed last and the n-th entry is the n-th     *)
(* step executed.                                                          *)
C11_HistoryInExecutionOrder ==
  /\ Len(step_history) = Len(executed)
  /\ \A i \in 1..Len(step_history) :
       /\ step_history[i]._step.name = executed[i]
       /\ step_history[i]._retcode = retcodes[i]
       /\ nth_step(step_history, i) = step_history[i]
       /\ \A j \in 1..Len(step_history) :
            step_history[j]._step.name = step_history[i]._step.name => j = i
  /\ executed # <<>> =>
       /\ last_step(step_history)._step.name = executed[Len(executed)]
       /\ last_step(step_history)._retcode = retcodes[Len(executed)]
  /\ executed = <<>> => last_step(step_history) = NoStep
  /\ nth_step(step_history, Len(executed) + 1) = NoStep

C11_Witness ==
  /\ run_pc = "executing"
  /\ executed = <<"c", "a", "b">>
  /\ retcodes = <<1, 0, -1>>
  /\ last_step(step_history)._step.name = "b"
  /\ nth_step(step_history, 1)._step.name = "c"

(***************************************************************************)
(* StepPresentation.                                                       *)
(***************************************************************************)
(* C12: once finalize has been called, every call of the status, step_text *)
(* or step_summary_text setter raises, and the stored status and texts     *)
(* keep the values they had when finalize was called.                      *)
C12_FinalizedRejectsSetters ==
  [][_finalized
       => /\ _finalized'
          /\ _status' = _status
          /\ _step_text' = _step_text
          /\ _step_summary_text' = _step_summary_text
          /\ last_call' \in {"status", "step_text", "step_summary_text"}
               => pres_error' = "AssertionError"]_vars

C12_Witness ==
  /\ _finalized
  /\ last_call = "status"
  /\ pres_error = "AssertionError"
  /\ _status = "FAILURE"
  /\ _step_text = "3 failed"

(* C13: a mapping read from logs or perf_logs after finalize is a copy:    *)
(* it starts equal to the stored mapping and changing it leaves both       *)
(* stored mappings as they are; a mapping read before finalize is the      *)
(* stored one, so a change of it is a change of the stored mapping.        *)
C13_LogsCopiedAfterFinalize ==
  [][/\ last_call' \in {"logs", "perf_logs"}
          => /\ held'.after_finalize = _finalized
             /\ held'.value = (IF last_call' = "logs" THEN _logs
                               ELSE _perf_logs)
     /\ (last_call' = "mutate" /\ held.after_finalize)
          => _logs' = _logs /\ _perf_logs' = _perf_logs
     /\ (last_call' = "mutate" /\ ~held.after_finalize)
          => /\ held.kind = "logs" => _logs' = held'.value
             /\ held.kind = "perf_logs" => _perf_logs' = held'.value]_vars

C13_Witness ==
  /\ _finalized
  /\ last_call = "mutate"
  /\ held.kind = "logs"
  /\ held.after_finalize
  /\ held.value = "stdout" :> <<"x", "y">>
  /\ _logs = "stdout" :> <<"x">>

(* C14: a step that fails, with a non-zero return code and no              *)
(* continue-on-failure declaration, does not make the loop skip later      *)
(* steps: when the run returns, every step the recipe yields has been      *)
(* executed and recorded in step_history, in order, and the status code    *)
(* is 1.                                                                   *)
FailingStep(i) ==
  retcodes[i] # 0 /\ ~step_history[i]._step.continue_on_failure

C14_FailureSkipsNoLaterStep ==
  (/\ run_pc = "done"
   /\ recipe_found
   /\ \E i \in 1..Len(retcodes) : FailingStep(i))
    => /\ executed = [i \in 1..Len(EnsureEach(recipe)) |->
                        EnsureEach(recipe)[i].name]
       /\ [i \in 1..Len(step_history) |-> step_history[i]._step.name]
            = executed
       /\ status_code = 1

C14_Witness ==
  /\ run_pc = "done"
  /\ recipe = <<Sequence(<<Step("a"), Step("b")>>), Step("c")>>
  /\ retcodes = <<1, 0, 0>>
  /\ executed = <<"a", "b", "c">>
  /\ status_code = 1

(* C15: the failure flag starts false, is true exactly from the first      *)
(* executed step on that has a non-zero return code and no                 *)
(* continue-on-failure declaration, never returns to false, and the run    *)
(* that reaches the end of the loop returns 1 when the flag is true and 0  *)
(* when it is false.                                                       *)
C15_FailureFlagSticky ==
  /\ [](/\ failed = (\E i \in 1..Len(retcodes) : FailingStep(i))
        /\ (run_pc = "done" /\ recipe_found)
             => status_code = (IF failed THEN 1 ELSE 0))
  /\ [][failed => failed']_vars

C15_Witness ==
  /\ run_pc = "done"
  /\ retcodes = <<-1, 1, 0>>
  /\ step_history[1]._step.continue_on_failure
  /\ failed
  /\ status_code = 1

(* C16: when the recipe is not found, for a recipe name as for the         *)
(* 'module:example' form, the setup step is marked FAILURE, the run        *)
(* returns status code 2, and no step is executed or recorded.             *)
C16_RecipeNotFoundReturnsTwo ==
  (run_pc \notin {"idle", "setup"} /\ ~recipe_found)
    => /\ run_pc = "done"
       /\ setup_step = SetupStep("FAILURE", "recipe not found")
       /\ status_code = 2
       /\ executed = <<>>
       /\ step_history = <<>>

C16_Witness ==
  /\ run_pc = "done"
  /\ ~recipe_found
  /\ recipe_form = "module"
  /\ recipe = <<Step("a"), Step("b")>>
  /\ status_code = 2
  /\ setup_step.status = "FAILURE"

(* C17: when the run is in the failed state and the steps last executed    *)
(* were yielded by a generator the recipe yielded, without 'keep_going',   *)
(* the loop does not ask that generator for a further item.                *)
C17_FailedRunLeavesGenerator ==
  [][(/\ run_pc = "executing"
      /\ failed
      /\ batch = <<>>
      /\ batch_from.depth >= 2
      /\ ~batch_from.keep_going
      /\ Len(steps) = batch_from.depth
      /\ steps[Len(steps)] # <<>>)
       => ~(/\ Len(steps') >= batch_from.depth
            /\ steps'[batch_from.depth] = Tail(steps[batch_from.depth]))]_vars

(***************************************************************************)
(* The queries of the log parser.                                          *)
(***************************************************************************)
MaxFilterLines == 4

FilterTests == {"Foo.FAILS_Baz", "Foo.FLAKY_Qux", "Foo.FAILS_FLAKY_Mix"}

FilterLines ==
  {Run(t) : t \in FilterTests} \cup {Ok(t) : t \in FilterTests}
    \cup {Failed(t) : t \in FilterTests}
    \cup {Timeout(t) : t \in FilterTests}
    \cup {Retry}

InitFilter ==
  ParserInit(FilterLines, MaxFilterLines) /\ SeqIdle /\ RunIdle /\ PresIdle /\ ShellIdle /\ PollIdle

SpecFilter == InitFilter /\ [][NextParser]_vars

MaxCompletionLines == 4

CompletionTests == {"Foo.Bar", "Foo.FAILS_Baz"}

CompletionLines ==
  {Run(t) : t \in CompletionTests} \cup {Ok(t) : t \in CompletionTests}
    \cup {Failed(t) : t \in CompletionTests}
    \cup {Passed, Text("x") \o Passed, Run("Foo.Bar") \o Passed}
    \cup {Text("x"), Retry}

InitCompletion ==
  /\ ParserInit(CompletionLines, MaxCompletionLines)
  /\ SeqIdle /\ RunIdle /\ PresIdle /\ ShellIdle /\ PollIdle

SpecCompletion == InitCompletion /\ [][NextParser]_vars

(* C20: after any lines, CompletedWithoutFailure() is true exactly when an *)
(* all-tests-passed banner has been processed before and FailedTests()     *)
(* with the default filtering is empty; 'completed' is set from the first  *)
(* banner on and is never cleared.                                         *)
C20_CompletedWithoutFailure ==
  /\ CompletedWithoutFailure(Parser)
       <=> (banner_seen /\ FailedTests(Parser, FALSE, FALSE) = {})
  /\ completed = banner_seen

C20_Witness ==
  /\ last_line = Text("x") \o Passed
  /\ prev_line = Run("Foo.Bar") \o Passed
  /\ StatusOfTest(Parser, "Foo.FAILS_Baz") = "failed"
  /\ StatusOfTest(Parser, "Foo.Bar") = "started"
  /\ completed
  /\ ~CompletedWithoutFailure(Parser)

(***************************************************************************)
(* step_callback: what _inner does with the result of a step.              *)
(***************************************************************************)
Calls(step_result) ==
  [i \in 1..Len(step_result.trace) |-> step_result.trace[i].call]

(* The place of a call in the trace of a result, 0 when it was not made. *)
CallAt(step_result, call) ==
  IF \E i \in 1..Len(step_result.trace) : step_result.trace[i].call = call
  THEN CHOOSE i \in 1..Len(step_result.trace) :
         step_result.trace[i].call = call
  ELSE 0

TimesCalled(step_result, call) ==
  Cardinality({i \in 1..Len(step_result.trace) :
                 step_result.trace[i].call = call})

(* C21: the result of an executed step with a non-zero return code,        *)
(* positive or negative, has status FAILURE when it is finalized unless    *)
(* the follow-up callback set another status; with return code 0 the       *)
(* status stays unset unless a callback sets it.                           *)
C21_NonZeroRetcodeIsFailure ==
  \A i \in 1..Len(step_history) :
    (/\ step_history[i]._presentation._finalized
     /\ step_history[i]._step.followup_fn # "set_warning")
      => step_history[i]._presentation._status =
           (IF step_history[i]._retcode # 0 THEN "FAILURE" ELSE "None")

(* C22: for every executed step the follow-up callback runs before the     *)
(* placeholders are bound onto the result, and both before finalize.       *)
C22_FollowupBeforePlaceholders ==
  \A i \in 1..Len(step_history) :
    CallAt(step_history[i], "followup_fn") # 0
      => /\ CallAt(step_history[i], "followup_fn")
              < CallAt(step_history[i], "call_placeholders")
         /\ CallAt(step_history[i], "call_placeholders")
              < CallAt(step_history[i], "finalize")

(* C22, as the code has it: for every executed step call_placeholders runs *)
(* first, the follow-up callback, if the step has one, runs next and sees  *)
(* what the placeholders set on the result, and finalize runs last.        *)
C22_PlaceholdersBeforeFollowup ==
  \A i \in 1..Len(step_history) :
    LET r == step_history[i]
    IN /\ 0 < CallAt(r, "call_placeholders")
       /\ CallAt(r, "call_placeholders") < CallAt(r, "finalize")
       /\ CallAt(r, "finalize") = Len(r.trace)
       /\ (r._step.followup_fn # "") = (CallAt(r, "followup_fn") # 0)
       /\ CallAt(r, "followup_fn") # 0
            => /\ CallAt(r, "call_placeholders") < CallAt(r, "followup_fn")
               /\ CallAt(r, "followup_fn") < CallAt(r, "finalize")
               /\ r.trace[CallAt(r, "followup_fn")].bound
                    = r._step.has_placeholder

C22_Witness ==
  /\ Len(step_history) = 2
  /\ step_history[2]._step = PlaceholderStep("b", "read")
  /\ Calls(step_history[2])
       = <<"step_history", "call_placeholders", "followup_fn", "finalize">>
  /\ step_history[2].trace[3].bound

(* C23: a result is put into step_history only when its presentation is    *)
(* finalized: whenever a placeholder or a follow-up callback of a step     *)
(* runs and the result is in step_history, the result is finalized.        *)
C23_StoredOnlyWhenFinalized ==
  \A i \in 1..Len(step_history) :
    \A j \in 1..Len(step_history[i].trace) :
      LET e == step_history[i].trace[j]
      IN (e.call \in {"call_placeholders", "followup_fn"} /\ e.in_history)
           => e.finalized

(* C23, as the code has it: a result is put into step_history before its   *)
(* placeholders and its follow-up callback run and is finalized after      *)
(* them, so they see it in step_history, not finalized; every other entry  *)
(* they can see, and every entry once _inner has returned, is finalized.   *)
C23_StoredBeforeFinalized ==
  \A i \in 1..Len(step_history) :
    /\ step_history[i]._presentation._finalized
    /\ \A j \in 1..Len(step_history[i].trace) :
         LET e == step_history[i].trace[j]
         IN /\ e.call \in {"call_placeholders", "followup_fn", "finalize"}
                 => e.in_history /\ ~e.finalized
            /\ e.call \in {"status", "step_history"}
                 => ~e.in_history /\ ~e.finalized

C23_Witness ==
  /\ Len(step_history) = 1
  /\ step_history[1]._step = FollowupStep("a", "set_warning")
  /\ step_history[1]._retcode = 1
  /\ step_history[1].trace[CallAt(step_history[1], "followup_fn")].in_history
  /\ ~step_history[1].trace[CallAt(step_history[1], "followup_fn")].finalized
  /\ step_history[1]._presentation._status = "WARNING"
  /\ step_history[1]._presentation._finalized

(* C24: between two steps every result in step_history is finalized, and   *)
(* finalize was called on it exactly once.                                 *)
C24_FinalizedExactlyOnce ==
  \A i \in 1..Len(step_history) :
    /\ step_history[i]._presentation._finalized
    /\ TimesCalled(step_history[i], "finalize") = 1

C24_Witness ==
  /\ run_pc = "executing"
  /\ batch = <<>>
  /\ Len(steps) = 2
  /\ steps[2] # <<>>
  /\ Len(step_history) = 2
  /\ TimesCalled(step_history[2], "finalize") = 1

(***************************************************************************)
(* Steps are pulled lazily.                                                *)
(***************************************************************************)
(* C25: a generator is resumed for its next item only after every step of  *)
(* the item it yielded before has been executed and recorded in            *)
(* step_history; when that item was a single step, the step is             *)
(* last_step() as the generator runs on.                                   *)
C25_ResumedAfterItemRecorded ==
  run_pc \in {"executing", "done", "fault"} =>
    /\ \A i \in 1..Len(resumed.item) :
         \E j \in 1..Len(resumed.recorded) :
           resumed.recorded[j] = resumed.item[i]
    /\ Len(resumed.item) = 1 =>
         /\ resumed.recorded # <<>>
         /\ resumed.recorded[Len(resumed.recorded)] = resumed.item[1]
    /\ run_pc = "executing" =>
         /\ Len(batch) <= Len(batch_from.yielded)
         /\ StepNamesOf(batch) =
              SubSeq(batch_from.yielded,
                     Len(batch_from.yielded) - Len(batch) + 1,
                     Len(batch_from.yielded))

(* A generator inside the recipe yielded the single step "a" after "b" had *)
(* run, and is resumed: "a" is the last entry of step_history.             *)
C25_Witness ==
  /\ run_pc = "executing"
  /\ Len(steps) = 2
  /\ resumed.item = <<"a">>
  /\ resumed.recorded = <<"b", "a">>
  /\ Len(step_history) = 3

(***************************************************************************)
(* Items that are no step, no sequence and no generator.                   *)
(***************************************************************************)
(* The names of the steps a depth-first, left-to-right walk of the items   *)
(* meets before the first object that is none of the three, and whether    *)
(* there is such an object.                                                *)
RECURSIVE StepsBefore(_)
StepsBefore(items) ==
  IF items = <<>> THEN [names |-> <<>>, found |-> FALSE]
  ELSE LET item == Head(items)
           first == IF item.t = "step"
                    THEN [names |-> <<item.name>>, found |-> FALSE]
                    ELSE IF item.t = "other"
                    THEN [names |-> <<>>, found |-> TRUE]
                    ELSE StepsBefore(item.items)
       IN IF first.found THEN first
          ELSE LET rest == StepsBefore(Tail(items))
               IN [names |-> first.names \o rest.names, found |-> rest.found]

(* C26: an item of the step source that is neither a step, nor a sequence, *)
(* nor a generator makes the run fail with the invalid-step-shape fault    *)
(* when it is reached: the run does not complete, and when it fails the    *)
(* steps in front of the item have been executed and are in step_history.  *)
C26_InvalidItemFaultsWhenReached ==
  /\ (run_pc = "done" /\ status_code # 2) => ~StepsBefore(recipe).found
  /\ (run_pc = "fault" /\ run_fault # DuplicateStepName) =>
       /\ run_fault = InvalidStepShape
       /\ StepsBefore(recipe).found
       /\ executed = StepsBefore(recipe).names
       /\ [i \in 1..Len(step_history) |-> step_history[i]._step.name]
            = StepsBefore(recipe).names

(***************************************************************************)
(* Test mode.                                                              *)
(***************************************************************************)
(* C27: in test mode no subprocess is run; every step recorded has the     *)
(* return code '$R' of the entry test_data held under its name, 0 when     *)
(* there is no entry or no '$R'; each step takes the entry of its own name *)
(* out of test_data; the run returns only with test_data used up, and      *)
(* fails with the unconsumed-test-data fault when the steps are through    *)
(* and entries are left.                                                   *)
C27_TestModeConsumesCannedData ==
  test_mode =>
    /\ executed = <<>>
    /\ \A i \in 1..Len(step_history) :
         LET given == {e \in canned : /\ e.name = step_history[i]._step.name
                                      /\ e.has_R}
         IN IF given = {} THEN step_history[i]._retcode = 0
            ELSE \A e \in given : step_history[i]._retcode = e.R
    /\ run_pc \in {"executing", "done"} =>
         test_data = {e \in canned : e.name \notin HistoryNames(step_history)}
    /\ (run_pc = "done" /\ status_code # 2) =>
         /\ test_data = {}
         /\ \A e \in canned : e.name \in HistoryNames(step_history)
    /\ (run_pc = "fault" /\ run_fault = UnconsumedTestData) =>
         /\ test_data # {}
         /\ steps = <<>>
         /\ batch = <<>>
    /\ (run_pc = "fault" /\ steps = <<>> /\ batch = <<>>) =>
         run_fault = UnconsumedTestData

(* Step "a" ran with the canned return code 1, step "b" without an entry   *)
(* with 0, and the entry of "c" is left over when the steps are through.   *)
C27_Witness ==
  /\ test_mode
  /\ run_pc = "fault"
  /\ run_fault = UnconsumedTestData
  /\ canned = {TestDatum("a", TRUE, 1), TestDatum("c", TRUE, 0)}
  /\ test_data = {TestDatum("c", TRUE, 0)}
  /\ Len(step_history) = 2
  /\ step_history[1]._retcode = 1
  /\ step_history[2]._retcode = 0

(***************************************************************************)
(* Lines with a marker that is not at their start.                         *)
(***************************************************************************)
MaxInterleavedLines == 3

InterleavedLines ==
  {Run("Foo.Bar"), Ok("Foo.Bar"), Text("x"), Retry,
   Text("x") \o Run("Foo.Bar"), Text("x") \o Ok("Foo.Bar"),
   Text("x") \o Failed("Foo.Bar"), Text("x") \o Passed,
   Run("Foo.Bar") \o Text("x") \o Ok("Foo.Bar"),
   Text("x") \o Ok("Foo.Bar") \o Run("Foo.FAILS_Baz")}

InitInterleaved ==
  ParserInit(InterleavedLines, MaxInterleavedLines)
    /\ SeqIdle /\ RunIdle /\ PresIdle /\ ShellIdle /\ PollIdle

SpecInterleaved == InitInterleaved /\ [][NextParser]_vars

(* The places of a line, other than its start, where a marker of           *)
(* gtest_regexps begins.                                                   *)
MarkerPositions(line) ==
  {i \in 2..Len(line) :
     \E r \in 1..Len(gtest_regexps) : line[i].k = gtest_regexps[r]}

(* The text before place i and the text from place i on, given to          *)
(* ProcessLine as two lines.                                               *)
AsTwoLines(s, line, i) ==
  LET s1 == ProcessLineOp(s, SubSeq(line, 1, i - 1))
  IN IF s1.parser_fault THEN s1
     ELSE ProcessLineOp(s1, SubSeq(line, i, Len(line)))

(* The parser state without the line counter and the line numbers it put   *)
(* into the recorded errors.                                               *)
LineCounterAside(s) ==
  [s EXCEPT !._line_number = 0,
            !._internal_error_lines =
               [k \in 1..Len(@) |-> [@[k] EXCEPT !.num = 0]]]

(* C28: a line with a marker at a place other than its start leaves the    *)
(* parser, line counter aside, as the text before the marker and the text  *)
(* from the marker on do when they are processed as two lines.             *)
C28_SplitAtMarker ==
  [][(/\ _line_number' = _line_number + 1
      /\ MarkerPositions(last_line') # {})
       => \E i \in MarkerPositions(last_line') :
            LineCounterAside(Parser')
              = LineCounterAside(AsTwoLines(Parser, last_line', i))]_vars

(***************************************************************************)
(* The order of the rules of _ProcessLine.                                 *)
(***************************************************************************)
MaxPriorityLines == 3

(* One line for each rule, and a line no rule matches. *)
PriorityLines ==
  {Master("m"), Shard("Foo.Bar"), Passed, Disabled(1), Flaky(1),
   Run("Foo.Bar"), Ok("Foo.Bar"), Failed("Foo.Bar"), Timeout("Foo.Bar"),
   SuppStart("A1"), SuppEnd, Retry, Text("x")}

InitPriority ==
  ParserInit(PriorityLines, MaxPriorityLines) /\ SeqIdle /\ RunIdle /\ PresIdle /\ ShellIdle /\ PollIdle

SpecPriority == InitPriority /\ [][NextParser]_vars

(* The first rule of _ProcessLine that matches the line in state s, "" when *)
(* none does.                                                              *)
FirstRule(s, line) ==
  IF s.master_name = "" /\ _master_name_re(line) THEN "master"
  ELSE IF _run_test_cases_line(line) THEN "shard"
  ELSE IF _test_passed(line) THEN "passed"
  ELSE IF _disabled(line) THEN "disabled"
  ELSE IF _flaky(line) THEN "flaky"
  ELSE IF _test_start(line) THEN "run"
  ELSE IF _test_ok(line) THEN "ok"
  ELSE IF _test_fail(line) THEN "fail"
  ELSE IF _test_timeout(line) THEN "timeout"
  ELSE IF _suppression_start(line) THEN "supp"
  ELSE IF _suppression_end(line) /\ s._current_suppression_hash # ""
  THEN "close"
  ELSE IF _retry_message(line) THEN "retry"
  ELSE ""

(* What the rule alone does to the parser. *)
RuleAlone(s, line, rule) ==
  CASE rule = "master" -> MasterNameRule(s, line)
    [] rule = "shard" -> RunTestCasesRule(s)
    [] rule = "passed" -> TestPassedRule(s)
    [] rule = "disabled" -> DisabledRule(s, line)
    [] rule = "flaky" -> FlakyRule(s, line)
    [] rule = "run" -> TestStartRule(s, line)
    [] rule = "ok" -> TestOkRule(s, line)
    [] rule = "fail" -> TestFailRule(s, line)
    [] rule = "timeout" -> TestTimeoutRule(s, line)
    [] rule = "supp" -> SuppressionStartRule(s, line)
    [] rule = "close" -> SuppressionEndRule(s, line)
    [] rule = "retry" -> RetryRule(s)

(* C29: a line is handled by the first rule it matches and by nothing      *)
(* else: it is not also appended to an open suppression or to the failure  *)
(* description of the current test, and the parser changes as that rule    *)
(* alone changes it.                                                       *)
C29_FirstRuleConsumesLine ==
  [][(/\ _line_number' = _line_number + 1
      /\ SplitPos(last_line') <= 1
      /\ FirstRule(Parser, last_line') # "")
       => /\ Parser' = RuleAlone([Parser EXCEPT !._line_number = @ + 1],
                                 last_line', FirstRule(Parser, last_line'))
          /\ _current_suppression_hash # "" =>
               _current_suppression' # Append(_current_suppression, last_line')
          /\ _current_test # "" =>
               _failure_description'
                 # Append(_failure_description, last_line')]_vars

(***************************************************************************)
(* The summary line of the sharded runner.                                 *)
(***************************************************************************)
(* C30: a summary line '[i/N] <time>s <test> ...' turns the current test,  *)
(* when its status is 'started', into 'timeout'; it leaves every other     *)
(* status, that of a current test in another status too, as it is, and     *)
(* clears the current test and the failure description.                    *)
C30_ShardSummaryTimesOutCurrentTest ==
  [][(/\ _line_number' = _line_number + 1
      /\ last_line' \in {Shard(t) : t \in Tests})
       => /\ _current_test' = ""
          /\ _failure_description' = <<>>
          /\ DOMAIN _test_status' = DOMAIN _test_status
          /\ \A t \in DOMAIN _test_status :
               _test_status'[t].status =
                 IF t = _current_test /\ _test_status[t].status = "started"
                 THEN "timeout"
                 ELSE _test_status[t].status]_vars

(* Foo.FAILS_Baz ran and passed, Foo.Bar was started, and the summary line *)
(* came: Foo.Bar is 'timeout', Foo.FAILS_Baz still 'OK'.                   *)
C30_Witness ==
  /\ last_line = Shard("Foo.Bar")
  /\ prev_line = Run("Foo.Bar")
  /\ StatusOfTest(Parser, "Foo.Bar") = "timeout"
  /\ StatusOfTest(Parser, "Foo.FAILS_Baz") = "OK"
  /\ _current_test = ""
  /\ _failure_description = <<>>

(***************************************************************************)
(* Parsing errors: lines that come in a status they are not expected in.   *)
(***************************************************************************)
(* The list of parsing errors got one entry more, for this line. *)
OneErrorRecorded ==
  /\ Len(_internal_error_lines') = Len(_internal_error_lines) + 1
  /\ SubSeq(_internal_error_lines', 1, Len(_internal_error_lines))
       = _internal_error_lines
  /\ _internal_error_lines'[Len(_internal_error_lines')].num = _line_number'
  /\ _internal_error_lines'[Len(_internal_error_lines')].line = last_line'

(* C31: an '[ OK ] T' line for a test T that is not 'started' appends one  *)
(* entry to the parsing errors, an '[ OK ] T' line for a 'started' T       *)
(* appends none; in both cases T becomes 'OK', 'warning' in retry mode,    *)
(* and the parser goes on.                                                 *)
C31_OkOutOfOrderIsSoftError ==
  [][(/\ _line_number' = _line_number + 1
      /\ last_line' \in {Ok(t) : t \in Tests})
       => /\ ~parser_fault'
          /\ StatusOfTest(Parser', last_line'[1].a)
               = IF retrying_failed THEN "warning" ELSE "OK"
          /\ IF StatusOfTest(Parser, last_line'[1].a) # "started"
             THEN OneErrorRecorded
             ELSE _internal_error_lines' = _internal_error_lines]_vars

(* '[ OK ] Foo.Bar' came twice for a test that was never started, each     *)
(* time recorded as an error, and a '[ RUN ]' line was processed after.    *)
C31_Witness ==
  /\ Len(_internal_error_lines) = 2
  /\ _internal_error_lines[1].line = Ok("Foo.Bar")
  /\ _internal_error_lines[1].reason = <<"success while in status", "not known">>
  /\ _internal_error_lines[2].reason = <<"success while in status", "OK">>
  /\ last_line = Run("Foo.Bar")
  /\ StatusOfTest(Parser, "Foo.Bar") = "started"

(* C32: a '[ FAILED ] T' line leaves the status and the description of a   *)
(* test T that is 'failed' or 'timeout' as they are; in any other status T *)
(* becomes 'failed' with the failure description accumulated so far.       *)
C32_FailedKeepsFirstFailure ==
  [][(/\ _line_number' = _line_number + 1
      /\ last_line' \in {Failed(t) : t \in Tests})
       => IF StatusOfTest(Parser, last_line'[1].a) \in {"failed", "timeout"}
          THEN _test_status'[last_line'[1].a] = _test_status[last_line'[1].a]
          ELSE _test_status'[last_line'[1].a]
                 = Entry("failed", _failure_description)]_vars

(* Foo.Bar failed with the output line "x" and is listed as failed again:  *)
(* it keeps the description of its first failure.                          *)
C32_Witness ==
  /\ last_line = Failed("Foo.Bar")
  /\ prev_line = Failed("Foo.Bar")
  /\ _line_number = 4
  /\ _test_status["Foo.Bar"] = Entry("failed", <<Text("x")>>)

(* C33: a 'Test timeout (N ms) exceeded for T' line gives T the status     *)
(* 'timeout' and, as description, the accumulated failure lines followed   *)
(* by 'Killed (timed out).'; it clears the current test, and it records a  *)
(* parsing error exactly when T was neither 'started' nor 'failed'.        *)
C33_TimeoutMessageRecordsTimeout ==
  [][(/\ _line_number' = _line_number + 1
      /\ last_line' \in {Timeout(t) : t \in Tests})
       => /\ _test_status'[last_line'[1].a]
               = Entry("timeout", _failure_description \o KilledTimedOut)
          /\ _current_test' = ""
          /\ IF StatusOfTest(Parser, last_line'[1].a)
                  \notin {"started", "failed"}
             THEN OneErrorRecorded
             ELSE _internal_error_lines' = _internal_error_lines]_vars

(* Foo.Bar timed out, and the fourth line is a second timeout message for *)
(* it: a parsing error, and the description is the 'Killed' line alone.    *)
C33_Witness ==
  /\ last_line = Timeout("Foo.Bar")
  /\ prev_line = Timeout("Foo.Bar")
  /\ _line_number = 4
  /\ _test_status["Foo.Bar"] = Entry("timeout", KilledTimedOut)
  /\ Len(_internal_error_lines) = 1
  /\ _internal_error_lines[1].reason = <<"timeout while in status", "timeout">>
  /\ _internal_error_lines[1].num = 4

(* C34: a suppression start line for a hash seen before records one        *)
(* parsing error and opens a new accumulator for the hash, and a           *)
(* suppression stored complete under the hash is still what                *)
(* Suppression(hash) returns: it stays until a new block for the hash is   *)
(* closed.                                                                 *)
C34_DuplicateHashKeepsStoredSuppression ==
  [][(/\ _line_number' = _line_number + 1
      /\ last_line' \in {SuppStart(h) : h \in Hashes}
      /\ last_line'[1].a \in SuppressionHashes(Parser))
       => /\ OneErrorRecorded
          /\ _current_suppression_hash' = last_line'[1].a
          /\ _current_suppression' = <<last_line'>>
          /\ Suppression(Parser, last_line'[1].a) # <<>> =>
               Suppression(Parser', last_line'[1].a)
                 = Suppression(Parser, last_line'[1].a)]_vars

(***************************************************************************)
(* Retry mode.                                                             *)
(***************************************************************************)
(* C35: retrying_failed is false before the first line, is true after a    *)
(* 'RETRYING FAILED TESTS:' line, changes on no other line, and is never   *)
(* cleared; while it is true every '[ OK ] T' line stores 'warning' for T, *)
(* whatever T's status was before.                                         *)
C35_RetryModeIsSticky ==
  /\ [](_line_number = 0 => ~retrying_failed)
  /\ [][_line_number' = _line_number + 1 =>
          /\ retrying_failed => retrying_failed'
          /\ retrying_failed' <=> (retrying_failed \/ last_line' = Retry)
          /\ (retrying_failed /\ last_line' \in {Ok(t) : t \in RetryTests})
               => StatusOfTest(Parser', last_line'[1].a) = "warning"]_vars

(* Foo.Bar passed before the banner, and its '[ OK ]' line after the       *)
(* banner gives it 'warning'; a line after that finds retry mode still on. *)
C35_Witness ==
  /\ retrying_failed
  /\ "Foo.Bar" \in DOMAIN retry_snapshot
  /\ retry_snapshot["Foo.Bar"].status = "OK"
  /\ prev_line = Ok("Foo.Bar")
  /\ last_line = Text("x")
  /\ StatusOfTest(Parser, "Foo.Bar") = "warning"
  /\ _line_number = 5

(***************************************************************************)
(* The 'Failing tests:' list.                                              *)
(***************************************************************************)
Statuses(s) == [t \in DOMAIN s._test_status |-> s._test_status[t].status]

(* C36: a line that starts with a test name and follows a 'Failing tests:' *)
(* line sets a test that is 'not known' or 'OK' to 'failed' with the       *)
(* description 'Unknown error, see stdio log.' and leaves a test in any    *)
(* other status as it is; a line that does not start with a test name ends *)
(* the list, so a test name line that follows such a line changes no       *)
(* status.                                                                 *)
C36_FailingTestsSection ==
  [][(/\ _line_number' = _line_number + 1
      /\ last_line' \in {Name(t) : t \in Tests})
       => /\ last_line = FailingTests =>
               IF StatusOfTest(Parser, last_line'[1].a) \in {"not known", "OK"}
               THEN _test_status'[last_line'[1].a]
                      = Entry("failed", UnknownError)
               ELSE Statuses(Parser') = Statuses(Parser)
          /\ (last_line # FailingTests /\ ~_test_name(last_line))
               => Statuses(Parser') = Statuses(Parser)]_vars

(***************************************************************************)
(* The life of a test's status.                                            *)
(***************************************************************************)
TerminalStatuses == {"OK", "failed", "timeout", "warning"}

(* The line has a '[ RUN ] t' marker. *)
HasRunMarker(line, t) ==
  \E i \in 1..Len(line) : line[i].k = "run" /\ line[i].a = t

(* C37 as claimed: a test's status becomes 'OK', 'failed', 'timeout' or    *)
(* 'warning' only when it was 'started', and becomes 'started' only by a   *)
(* '[ RUN ]' line for the test.                                            *)
C37_TerminalOnlyFromStarted ==
  [][_line_number' = _line_number + 1 =>
       \A t \in Tests :
         /\ (/\ StatusOfTest(Parser', t) \in TerminalStatuses
             /\ StatusOfTest(Parser', t) # StatusOfTest(Parser, t))
              => StatusOfTest(Parser, t) = "started"
         /\ (/\ StatusOfTest(Parser', t) = "started"
             /\ StatusOfTest(Parser, t) # "started")
              => HasRunMarker(last_line', t)]_vars

(* C37 amended: a test's status becomes 'started' only by a '[ RUN ]' line *)
(* for the test, and a test once seen stays in the table.  A status of     *)
(* 'OK', 'failed', 'timeout' or 'warning' is also entered from a status    *)
(* other than 'started': then the line is recorded as a parsing error,     *)
(* except for a timeout message for a 'failed' test and for a test name in *)
(* the 'Failing tests:' list, which sets an unknown or 'OK' test to        *)
(* 'failed'.                                                               *)
C37_StartedOnlyByRunLine ==
  [][_line_number' = _line_number + 1 =>
       \A t \in Tests :
         /\ (/\ StatusOfTest(Parser', t) = "started"
             /\ StatusOfTest(Parser, t) # "started")
              => HasRunMarker(last_line', t)
         /\ StatusOfTest(Parser, t) # "not known"
              => StatusOfTest(Parser', t) # "not known"
         /\ (/\ StatusOfTest(Parser', t) \in TerminalStatuses
             /\ StatusOfTest(Parser', t) # StatusOfTest(Parser, t)
             /\ StatusOfTest(Parser, t) # "started")
              => \/ /\ Len(_internal_error_lines')
                         = Len(_internal_error_lines) + 1
                    /\ last_line'[Len(last_line')].k \in {"ok", "fail", "timeout"}
                    /\ last_line'[Len(last_line')].a = t
                 \/ /\ StatusOfTest(Parser, t) = "failed"
                    /\ last_line' = Timeout(t)
                    /\ _internal_error_lines' = _internal_error_lines
                 \/ /\ StatusOfTest(Parser, t) \in {"not known", "OK"}
                    /\ StatusOfTest(Parser', t) = "failed"
                    /\ _parsing_failures
                    /\ last_line' = Name(t)
                    /\ _internal_error_lines' = _internal_error_lines]_vars

(* Foo.Bar passed, was then reported as failed, which is recorded as a     *)
(* parsing error, and is started again by a new '[ RUN ]' line.            *)
C37_Witness ==
  /\ _line_number = 4
  /\ last_line = Run("Foo.Bar")
  /\ prev_line = Failed("Foo.Bar")
  /\ StatusOfTest(Parser, "Foo.Bar") = "started"
  /\ Len(_internal_error_lines) = 1
  /\ _internal_error_lines[1].reason = <<"failure while in status", "OK">>

(***************************************************************************)
(* The current test is a known test.                                       *)
(***************************************************************************)
(* C38: in every reachable state a current test, when there is one, is a   *)
(* key of _test_status, and no line has made ProcessLine end with a fault: *)
(* the lookups of the current test's status never miss.                    *)
C38_CurrentTestIsKnown ==
  /\ _current_test # "" => _current_test \in DOMAIN _test_status
  /\ ~parser_fault

(* A '[ RUN ]' line came while Foo.Bar was the current test: its status    *)
(* was looked up and found, and Foo.FAILS_Baz is the current test now.     *)
C38_Witness ==
  /\ prev_line = Run("Foo.Bar")
  /\ last_line = Run("Foo.FAILS_Baz")
  /\ _current_test = "Foo.FAILS_Baz"
  /\ StatusOfTest(Parser, "Foo.Bar") = "timeout"
  /\ StatusOfTest(Parser, "Foo.FAILS_Baz") = "started"
  /\ ~parser_fault

(***************************************************************************)
(* The self-update protocol: invocations of annotated_run.py under every   *)
(* setting of RUN_SLAVE_UPDATED_SCRIPTS (unset, empty, '1'), on either     *)
(* platform, with 'gclient sync' succeeding or failing.  Every call made   *)
(* returns: 'gclient sync', subprocess.call and main are taken to end, so  *)
(* a process that can take a step takes it.                                *)
(***************************************************************************)
MarkerSettings ==
  {{}} \cup
  {{[name |-> RUN_SLAVE_UPDATED_SCRIPTS, value |-> v]} : v \in {"", "1"}}

OtherSettings == {{}, {[name |-> "PATH", value |-> "/usr/bin"]}}

InitialEnvirons == {m \cup o : m \in MarkerSettings, o \in OtherSettings}

Platforms == {"linux2", "win32"}

SyncRetcodes == {0, 1}

MainRetvals == {0, 1, 2}

NextShell ==
  /\ \/ \E sync \in SyncRetcodes : shell_main(sync)
     \/ subprocess_call
     \/ \E retval \in MainRetvals : shell_main_main(retval)
     \/ subprocess_returns
  /\ UNCHANGED <<parserVars, seqVars, runVars, presVars, pollVars>>

InitShell ==
  /\ procs \in {<<Process(e, p)>> : e \in InitialEnvirons, p \in Platforms}
  /\ synced = <<>>
  /\ ParserIdle /\ SeqIdle /\ RunIdle /\ PresIdle /\ PollIdle

SpecShell == InitShell /\ [][NextShell]_vars /\ WF_vars(NextShell)

Unmarked(p) == ~EnvironTruthy(p.inherited, RUN_SLAVE_UPDATED_SCRIPTS)

Exited == \A i \in 1..Len(procs) : procs[i].pc = "exit"

\* the places of an invocation started without the marker and of its child
SelfUpdateProtocol ==
  /\ Len(procs) \in 1..2
  /\ Len(synced) <= 1
  /\ LET root == procs[1] IN
     /\ (Unmarked(root) /\ root.pc # "shell_main") =>
          /\ root.pc \in {"call", "wait", "exit"}
          /\ Len(synced) = 1
          /\ synced[1].name = gclient_name(root.platform)
          /\ root.warned = (synced[1].retcode # 0)
          /\ EnvironGet(root.environ, RUN_SLAVE_UPDATED_SCRIPTS) = {"1"}
     /\ (Unmarked(root) /\ root.pc \in {"wait", "exit"}) => Len(procs) = 2
     /\ ~Unmarked(root) => Len(procs) = 1 /\ synced = <<>>
     /\ Len(procs) = 2 =>
          LET child == procs[2] IN
          /\ child.inherited = root.environ
          /\ ~Unmarked(child)
          /\ child.pc # "shell_main" =>
               /\ child.pc \in {"main", "exit"}
               /\ child.environ =
                    EnvironPop(root.environ, RUN_SLAVE_UPDATED_SCRIPTS)
          /\ root.pc = "exit" =>
               child.pc = "exit" /\ root.status = child.status

\* C39: an invocation started without RUN_SLAVE_UPDATED_SCRIPTS runs the
\* update once, sets the marker to '1' and calls itself once; the child
\* inherits the marker, removes it and runs main without an update, so no
\* chain is longer than the invocation and one child, and every chain ends
\* with all its processes exited, the invocation with its child's status,
\* whatever 'gclient sync' returned.
C39_SelfUpdateRunsOnce == []SelfUpdateProtocol /\ <>[]Exited

C39_Witness ==
  /\ Len(procs) = 2
  /\ Exited
  /\ procs[1].inherited = {}
  /\ procs[1].platform = "win32"
  /\ synced = <<[name |-> "gclient.bat", retcode |-> 1]>>
  /\ procs[1].warned
  /\ procs[2].environ = {}
  /\ procs[1].status = 2

(***************************************************************************)
(* Polls of a repository that takes commits of chrome-bot and of another   *)
(* author between them; the poller starts without a cached last_change.    *)
(***************************************************************************)
NextPoller ==
  /\ \/ \E author \in Authors : Commit(author)
     \/ poll
  /\ UNCHANGED <<parserVars, seqVars, runVars, presVars, shellVars>>

InitPoller ==
  /\ svn_log = <<>>
  /\ last_change = None
  /\ polled = <<>>
  /\ ParserIdle /\ SeqIdle /\ RunIdle /\ PresIdle /\ ShellIdle

SpecPoller == InitPoller /\ [][NextPoller]_vars

Revisions(logentries) ==
  {logentries[k].revision : k \in 1..Len(logentries)}

\* the poll was given a newest revision of chrome-bot it had not passed yet
HeldBack(p) ==
  /\ p.last_change # None
  /\ p.logentries # <<>>
  /\ p.logentries[1].author = ChromeBot
  /\ p.logentries[1].revision > p.last_change

\* C40: over the polls of a growing log, a poll without a known last_change
\* (the first one) reports nothing, no revision is reported by two polls or
\* twice by one, each poll reports its revisions oldest first, and a newest
\* revision of chrome-bot is left out by the poll that meets it and has been
\* reported by the time a later poll is given a newer revision of another
\* author.
C40_PollsReportEachRevisionOnce ==
  /\ \A i \in 1..Len(polled) :
       /\ polled[i].fault = ""
       /\ (i = 1 \/ polled[i].last_change = None) =>
            polled[i].new_logentries = <<>>
       /\ \A k, l \in 1..Len(polled[i].new_logentries) :
            k < l => polled[i].new_logentries[k].revision
                       < polled[i].new_logentries[l].revision
       /\ \A j \in (i + 1)..Len(polled) :
            Revisions(polled[i].new_logentries)
              \cap Revisions(polled[j].new_logentries) = {}
       /\ HeldBack(polled[i]) =>
            LET kept == polled[i].logentries[1].revision IN
            /\ kept \notin Revisions(polled[i].new_logentries)
            /\ \A j \in (i + 1)..Len(polled) :
                 (\E k \in 1..Len(polled[j].logentries) :
                    /\ polled[j].logentries[k].revision > kept
                    /\ polled[j].logentries[k].author # ChromeBot)
                 => \E m \in (i + 1)..j :
                      kept \in Revisions(polled[m].new_logentries)

C40_Witness ==
  /\ Len(polled) = 3
  /\ polled[2].last_change = 1
  /\ polled[2].logentries[1] = [revision |-> 2, author |-> ChromeBot]
  /\ polled[2].new_logentries = <<>>
  /\ last_change = 3
  /\ polled[3].new_logentries =
       <<[revision |-> 2, author |-> ChromeBot],
         [revision |-> 3, author |-> "alice@chromium.org"]>>

====
